---------------------------- MODULE Spec2Model ----------------------------
(***************************************************************************)
(* Model of the image-filter HTTP API (src/src): parameter validation,     *)
(* upload decoding, the filter library with its level presets, the inline  *)
(* and archive response assembly, the transient archive file and its       *)
(* deferred cleanup.                                                       *)
(*                                                                         *)
(* The third-party calls (cv2.*, zipfile, os.remove, UploadFile.read) are  *)
(* recorded, per request, in the log `chamadas' with the arguments they    *)
(* receive; the outcome of a call that may fail is drawn from the          *)
(* request's `falha' field.  An exception is a record; "nenhuma" means the *)
(* function returned normally.                                             *)
(***************************************************************************)
EXTENDS Integers, Sequences, FiniteSets, TLC

VARIABLES
    req,        \* req[r]: the inputs of request r (endpoint, parameters, upload)
    pc,         \* pc[r]: the position of request r in its handler
    img,        \* img[r]: img_original / img_filtrada of the handler
    chamadas,   \* chamadas[r]: the library calls made for r, in order
    resp,       \* resp[r]: the response handed to the client
    fs,         \* the "temp" directory: path -> file
    tarefas,    \* tarefas[r]: the path given to background_tasks.add_task
    avisos      \* avisos[r]: the warnings printed by limpar_arquivo_temporario

vars == <<req, pc, img, chamadas, resp, fs, tarefas, avisos>>

(***************************************************************************)
(* Bounds of the model.                                                    *)
(***************************************************************************)
NumReq == 2

Req == 1..NumReq

(***************************************************************************)
(* Exceptions.                                                             *)
(***************************************************************************)
Nenhuma == [tipo |-> "nenhuma", status |-> 0, msg |-> "", vals |-> <<>>]

HTTPException(status_code, msg, vals) ==
    [tipo |-> "HTTPException", status |-> status_code, msg |-> msg, vals |-> vals]

\* an exception of the underlying library (cv2.error, OSError, RuntimeError)
Exception(msg) ==
    [tipo |-> "Exception", status |-> 0, msg |-> msg, vals |-> <<>>]

Chamada(op, alvo, args) == [op |-> op, alvo |-> alvo, args |-> args]

(***************************************************************************)
(* validacao.py                                                            *)
(***************************************************************************)
\* the exception raised, or Nenhuma when the function returns (None);
\* `vals' are the values the message is formatted with
validar_kernel_impar_mut(kernel_size, nome_parametro) ==
    IF kernel_size <= 0
    THEN HTTPException(400, "deve ser maior que zero", <<nome_parametro, kernel_size>>)
    ELSE IF kernel_size > 99
    THEN HTTPException(400, "muito grande. Maximo permitido: 99",
                       <<nome_parametro, kernel_size>>)
    ELSE Nenhuma

validar_kernel_impar(kernel_size, nome_parametro) ==
    IF kernel_size <= 0
    THEN HTTPException(400, "deve ser maior que zero", <<nome_parametro, kernel_size>>)
    ELSE IF kernel_size % 2 = 0
    THEN HTTPException(400, "deve ser um numero impar", <<nome_parametro, kernel_size>>)
    ELSE IF kernel_size > 99
    THEN HTTPException(400, "muito grande. Maximo permitido: 99",
                       <<nome_parametro, kernel_size>>)
    ELSE Nenhuma

validar_intervalo_mut(valor, minimo, maximo, nome_parametro) ==
    IF valor <= minimo \/ valor >= maximo
    THEN HTTPException(400, "deve estar entre", <<minimo, maximo, valor>>)
    ELSE Nenhuma

validar_intervalo(valor, minimo, maximo, nome_parametro) ==
    IF valor < minimo \/ valor > maximo
    THEN HTTPException(400, "deve estar entre", <<minimo, maximo, valor>>)
    ELSE Nenhuma

validar_tamanho_abertura_canny(tamanho) ==
    IF tamanho \notin {3, 5, 7}
    THEN HTTPException(400, "tamanho_abertura deve ser 3, 5 ou 7", <<tamanho>>)
    ELSE Nenhuma

validar_ordem_limiares_canny(limiar1, limiar2) ==
    IF limiar2 <= limiar1
    THEN HTTPException(400, "limiar2 deve ser maior que limiar1", <<limiar2, limiar1>>)
    ELSE Nenhuma

\* the first exception raised by a sequence of checks run in order
PrimeiraExcecao(excs) ==
    IF \E i \in 1..Len(excs) : excs[i] # Nenhuma
    THEN excs[CHOOSE i \in 1..Len(excs) :
                 /\ excs[i] # Nenhuma
                 /\ \A j \in 1..(i - 1) : excs[j] = Nenhuma]
    ELSE Nenhuma

\* what leaves a try block closed by
\* "except HTTPException: raise / except Exception as e: raise HTTPException(500, ...)"
\* when `exc' was raised inside it
Repassar_mut(exc, detail) ==
    IF exc = Nenhuma THEN Nenhuma ELSE HTTPException(500, detail, <<>>)

Repassar(exc, detail) ==
    IF exc = Nenhuma THEN Nenhuma
    ELSE IF exc.tipo = "HTTPException" THEN exc
    ELSE HTTPException(500, detail, <<>>)

(***************************************************************************)
(* filtros/utilitarios.py: processar_imagem_upload                         *)
(***************************************************************************)
Maiusculas == <<"A","B","C","D","E","F","G","H","I","J","K","L","M",
                "N","O","P","Q","R","S","T","U","V","W","X","Y","Z">>
Minusculas == <<"a","b","c","d","e","f","g","h","i","j","k","l","m",
                "n","o","p","q","r","s","t","u","v","w","x","y","z">>

\* str.lower() on one character
lower_char(c) ==
    IF \E i \in 1..Len(Maiusculas) : Maiusculas[i] = c
    THEN Minusculas[CHOOSE i \in 1..Len(Maiusculas) : Maiusculas[i] = c]
    ELSE c

lower(s) == [i \in 1..Len(s) |-> lower_char(s[i])]

UltimoIndice(s, c) ==
    IF \E i \in 1..Len(s) : s[i] = c
    THEN CHOOSE i \in 1..Len(s) : s[i] = c /\ \A j \in (i + 1)..Len(s) : s[j] # c
    ELSE 0

\* os.path.splitext(p)[1]: the text from the last dot of the last path
\* component, unless that component has only dots before it
splitext_ext(p) ==
    LET sep == UltimoIndice(p, "/")
        dot == UltimoIndice(p, ".")
    IN  IF dot > sep /\ \E k \in (sep + 1)..(dot - 1) : p[k] # "."
        THEN SubSeq(p, dot, Len(p))
        ELSE <<>>

extensoes_validas == { <<".", "j", "p", "g">>, <<".", "j", "p", "e", "g">>,
                       <<".", "p", "n", "g">> }

TamanhoMaximo == 10 * (1024 * 1024)

\* tamanho_mb > 10, with tamanho_mb = len(conteudo) / (1024 * 1024)
MuitoGrande_mut(n) == n >= 10 * (1024 * 1024)

MuitoGrande(n) == n > 10 * (1024 * 1024)

\* A raster is its shape and, when every pixel of every channel holds the
\* same value, that value (0..255) in `cor'; Variado otherwise.
Variado == -1

SemImagem == [canais |-> 0, altura |-> 0, largura |-> 0, cor |-> Variado]

\* cv2.imdecode(np_arr, cv2.IMREAD_COLOR): a 3-channel raster, or None
imdecode(up) ==
    IF up.decodifica
    THEN [canais |-> 3, altura |-> up.altura, largura |-> up.largura, cor |-> up.cor]
    ELSE SemImagem

\* The result of processar_imagem_upload: the exception raised (or Nenhuma),
\* the raster returned and the calls made.
processar_imagem_upload_mut(up, falha) ==
    LET semArquivo == [exc |-> HTTPException(400, "Nenhum arquivo foi enviado", <<>>),
                       img |-> SemImagem, chamadas |-> <<>>]
        extensao   == lower(splitext_ext(up.filename))
        lido       == <<Chamada("arquivo.read", "", <<>>)>>
        decod      == lido \o <<Chamada("cv2.imdecode", "", <<up.tamanho>>)>>
        raster     == imdecode(up)
    IN  IF up.filename = <<>> THEN semArquivo
        ELSE IF extensao \notin extensoes_validas
        THEN [exc |-> HTTPException(400, "Formato de arquivo nao suportado", <<>>),
              img |-> SemImagem, chamadas |-> <<>>]
        ELSE IF falha = "read"
        THEN [exc |-> HTTPException(500, "Erro ao processar upload da imagem", <<>>),
              img |-> SemImagem, chamadas |-> lido]
        ELSE IF raster = SemImagem
        THEN [exc |-> HTTPException(400, "Nao foi possivel decodificar a imagem", <<>>),
              img |-> SemImagem, chamadas |-> decod]
        ELSE IF up.tamanho = 0
        THEN [exc |-> HTTPException(400, "O arquivo enviado esta vazio", <<>>),
              img |-> SemImagem, chamadas |-> decod]
        ELSE IF MuitoGrande(up.tamanho)
        THEN [exc |-> HTTPException(413, "Arquivo muito grande", <<up.tamanho>>),
              img |-> SemImagem, chamadas |-> decod]
        ELSE IF raster.altura < 10 \/ raster.largura < 10
        THEN [exc |-> HTTPException(400, "Imagem muito pequena",
                                    <<raster.largura, raster.altura>>),
              img |-> SemImagem, chamadas |-> decod]
        ELSE [exc |-> Nenhuma, img |-> raster, chamadas |-> decod]

processar_imagem_upload(up, falha) ==
    LET semArquivo == [exc |-> HTTPException(400, "Nenhum arquivo foi enviado", <<>>),
                       img |-> SemImagem, chamadas |-> <<>>]
        extensao   == lower(splitext_ext(up.filename))
        lido       == <<Chamada("arquivo.read", "", <<>>)>>
        decod      == lido \o <<Chamada("cv2.imdecode", "", <<up.tamanho>>)>>
        raster     == imdecode(up)
        noTry(exc, cs) == [exc |-> Repassar(exc, "Erro ao processar upload da imagem"),
                           img |-> SemImagem, chamadas |-> cs]
    IN  IF up.filename = <<>> THEN semArquivo
        ELSE IF extensao \notin extensoes_validas
        THEN [exc |-> HTTPException(400, "Formato de arquivo nao suportado", <<>>),
              img |-> SemImagem, chamadas |-> <<>>]
        ELSE IF falha = "read"
        THEN noTry(Exception("arquivo.read"), lido)
        ELSE IF up.tamanho = 0
        THEN noTry(HTTPException(400, "O arquivo enviado esta vazio", <<>>), lido)
        ELSE IF MuitoGrande(up.tamanho)
        THEN noTry(HTTPException(413, "Arquivo muito grande", <<up.tamanho>>), lido)
        ELSE IF raster = SemImagem
        THEN noTry(HTTPException(400, "Nao foi possivel decodificar a imagem", <<>>), decod)
        ELSE IF raster.altura < 10 \/ raster.largura < 10
        THEN noTry(HTTPException(400, "Imagem muito pequena",
                                 <<raster.largura, raster.altura>>), decod)
        ELSE [exc |-> Nenhuma, img |-> raster, chamadas |-> decod]

(***************************************************************************)
(* filtros/utilitarios.py: converter_para_cinza                            *)
(***************************************************************************)
converter_para_cinza(im) ==
    IF im.canais = 3
    THEN [img |-> [im EXCEPT !.canais = 1],
          chamadas |-> <<Chamada("cv2.cvtColor", "BGR2GRAY", <<>>)>>]
    ELSE [img |-> im, chamadas |-> <<>>]

(***************************************************************************)
(* What the library accepts (the calls raise cv2.error otherwise).         *)
(***************************************************************************)
GaussianBlurAceita(kw, kh, sigma) ==
    /\ (kw > 0 /\ kw % 2 = 1) \/ (kw <= 0 /\ sigma > 0)
    /\ (kh > 0 /\ kh % 2 = 1) \/ (kh <= 0 /\ sigma > 0)

medianBlurAceita(ksize) == ksize > 0 /\ ksize % 2 = 1

blurAceita(kw, kh) == kw > 0 /\ kh > 0

(***************************************************************************)
(* The float64 arithmetic of the edge filters on a uniform raster.         *)
(* "img_normalizada = img_gray.astype(np.float64) / 255.0" gives every     *)
(* pixel the double v = fl(k / 255); filters.sobel_h, sobel_v and roberts  *)
(* convolve the raster with their kernel, ndimage accumulating the         *)
(* products weight * pixel in a double, one nonzero weight after the       *)
(* other in the order of the (reversed) kernel.  In reflect mode every tap *)
(* of a uniform raster reads v.  A double is held exactly: its magnitude   *)
(* is a natural number of units of ulp(v) / 4, written in base 2^20 as     *)
(* <<n2, n1, n0>>, and every sum is rounded to 53 significant bits, ties   *)
(* to even.                                                                *)
(***************************************************************************)
Limbo == 2^20

\* carry propagation
Normal(n) ==
    LET b1 == n[2] + (n[3] \div Limbo)
    IN  <<n[1] + (b1 \div Limbo), b1 % Limbo, n[3] % Limbo>>

Mais(a, b) == Normal(<<a[1] + b[1], a[2] + b[2], a[3] + b[3]>>)

Vezes(q, a) == Normal(<<q * a[1], q * a[2], q * a[3]>>)

Maior(a, b) ==
    \/ a[1] > b[1]
    \/ a[1] = b[1] /\ a[2] > b[2]
    \/ a[1] = b[1] /\ a[2] = b[2] /\ a[3] > b[3]

\* a - b for a >= b
Menos(a, b) ==
    LET d0 == a[3] - b[3]
        e0 == IF d0 < 0 THEN 1 ELSE 0
        d1 == a[2] - b[2] - e0
        e1 == IF d1 < 0 THEN 1 ELSE 0
    IN  <<a[1] - b[1] - e1, d1 + e1 * Limbo, d0 + e0 * Limbo>>

\* round to nearest, ties to even, at 53 significant bits: bit 52 is bit 12
\* of n2, so d bits are dropped when n2 has 13 + d bits
Arredondar(n) ==
    LET d     == IF n[1] < 2^13 THEN 0 ELSE IF n[1] < 2^14 THEN 1
                 ELSE IF n[1] < 2^15 THEN 2 ELSE 3
        passo == 2^d
        resto == n[3] % passo
        impar == ((n[3] \div passo) % 2) = 1
        sobe  == 2 * resto > passo \/ (2 * resto = passo /\ impar)
    IN  IF sobe
        THEN Normal(<<n[1], n[2], n[3] - resto + passo>>)
        ELSE <<n[1], n[2], n[3] - resto>>

\* the position of the leading bit of k / 255: k * 2^j / 255 is in [1, 2)
Expoente(k) == CHOOSE j \in 0..8 : k * 2^j >= 255 /\ (j = 0 \/ k * 2^(j - 1) < 255)

\* the 53-bit significand of fl(k / 255.0) for k in 1..255, by long division
\* (the leading bit, then 12, 20 and 20 bits) and rounding on the remainder;
\* read in units of ulp(v) / 4 it is the double 0.25 * v
Significando(k) ==
    LET r0 == (k * 2^Expoente(k)) % 255
        q1 == (r0 * 2^12) \div 255
        r1 == (r0 * 2^12) % 255
        q2 == (r1 * Limbo) \div 255
        r2 == (r1 * Limbo) % 255
        q3 == (r2 * Limbo) \div 255
        r3 == (r2 * Limbo) % 255
    IN  IF 2 * r3 > 255
        THEN Normal(<<2^12 + q1, q2, q3 + 1>>)
        ELSE <<2^12 + q1, q2, q3>>

Quarto(k) == IF k = 0 THEN <<0, 0, 0>> ELSE Significando(k)

Zero == [neg |-> FALSE, mag |-> <<0, 0, 0>>]

\* weight * pixel for a weight of w quarters (w in {1, 2, 4, -1, -2, -4}): exact
Produto(w, k) ==
    [neg |-> w < 0, mag |-> Vezes(IF w < 0 THEN 0 - w ELSE w, Quarto(k))]

\* fl(x + y)
SomaFl(x, y) ==
    IF x.neg = y.neg THEN [neg |-> x.neg, mag |-> Arredondar(Mais(x.mag, y.mag))]
    ELSE IF Maior(y.mag, x.mag)
    THEN [neg |-> y.neg, mag |-> Arredondar(Menos(y.mag, x.mag))]
    ELSE [neg |-> x.neg /\ x.mag # y.mag, mag |-> Arredondar(Menos(x.mag, y.mag))]

\* "tmp = 0; for each nonzero weight: tmp += weight * pixel"
RECURSIVE Acumular(_, _, _)
Acumular(pesos, i, k) ==
    IF i = 0 THEN Zero
    ELSE SomaFl(Acumular(pesos, i - 1, k), Produto(pesos[i], k))

convolve(pesos, k) == Acumular(pesos, Len(pesos), k)

\* the nonzero weights, in quarters, of the reversed kernels:
\* sobel_h  [[1, 2, 1], [0, 0, 0], [-1, -2, -1]] / 4
\* sobel_v  [[1, 0, -1], [2, 0, -2], [1, 0, -1]] / 4
\* roberts  [[1, 0], [0, -1]] and [[0, 1], [-1, 0]]
PesosSobelH == <<-1, -2, -1, 1, 2, 1>>

PesosSobelV == <<-1, 1, -2, 2, -1, 1>>

PesosRobertsPD == <<-4, 4>>

PesosRobertsND == <<-4, 4>>

\* the value filters.sobel_h / sobel_v give every pixel of a uniform raster
sobel_h(k) == IF k = Variado THEN Zero ELSE convolve(PesosSobelH, k)

sobel_v(k) == IF k = Variado THEN Zero ELSE convolve(PesosSobelV, k)

\* np.hypot(x, y) is zero exactly when both are
hypot_zero(x, y) == x.mag = <<0, 0, 0>> /\ y.mag = <<0, 0, 0>>

\* filters.roberts: sqrt(pos_diag^2 + neg_diag^2) / sqrt(2)
roberts_zero(k) ==
    k # Variado => hypot_zero(convolve(PesosRobertsPD, k), convolve(PesosRobertsND, k))

(***************************************************************************)
(* filtros/deteccao_bordas.py                                              *)
(* Every filter returns [exc, img, chamadas]: the exception that leaves    *)
(* the function, the raster returned and the library calls made.           *)
(***************************************************************************)
\* "max_val = borda.max(); if max_val == 0: return np.zeros_like(img_gray);
\* borda = (borda / max_val) * 255; return borda.astype(np.uint8)" on a
\* raster whose gradient magnitude is the same at every pixel: all pixels 0
\* when that magnitude is zero, all pixels 255 (x / x * 255) otherwise
NormalizarBorda(img_gray, magnitude_zero) ==
    IF img_gray.cor = Variado THEN img_gray
    ELSE IF magnitude_zero THEN [img_gray EXCEPT !.cor = 0]
    ELSE [img_gray EXCEPT !.cor = 255]

borda_sobel(im, falha) ==
    LET cinza == converter_para_cinza(im)
        cs    == cinza.chamadas \o <<Chamada("filters.sobel_h", "", <<>>),
                                     Chamada("filters.sobel_v", "", <<>>)>>
        sobel_x == sobel_h(cinza.img.cor)
        sobel_y == sobel_v(cinza.img.cor)
    IN  IF falha = "filtro"
        THEN [exc |-> HTTPException(500, "Erro ao aplicar filtro Sobel", <<>>),
              img |-> SemImagem, chamadas |-> cs]
        ELSE [exc |-> Nenhuma,
              img |-> NormalizarBorda(cinza.img, hypot_zero(sobel_x, sobel_y)),
              chamadas |-> cs]

borda_roberts(im, falha) ==
    LET cinza == converter_para_cinza(im)
        cs    == cinza.chamadas \o <<Chamada("filters.roberts", "", <<>>)>>
    IN  IF falha = "filtro"
        THEN [exc |-> HTTPException(500, "Erro ao aplicar filtro Roberts", <<>>),
              img |-> SemImagem, chamadas |-> cs]
        ELSE [exc |-> Nenhuma,
              img |-> NormalizarBorda(cinza.img, roberts_zero(cinza.img.cor)),
              chamadas |-> cs]

\* the four checks at the top of borda_canny, in the order of the code
validar_canny(limiar1, limiar2, tamanho_abertura) ==
    PrimeiraExcecao(<< validar_intervalo(limiar1, 0, 255, "limiar1"),
                       validar_intervalo(limiar2, 0, 255, "limiar2"),
                       validar_tamanho_abertura_canny(tamanho_abertura),
                       validar_ordem_limiares_canny(limiar1, limiar2) >>)

borda_canny(im, limiar1, limiar2, tamanho_abertura, aplicar_blur, falha) ==
    LET cinza == converter_para_cinza(im)
        borrado == IF aplicar_blur
                   THEN <<Chamada("cv2.GaussianBlur", "", <<5, 5, 0>>)>>
                   ELSE <<>>
        cs == cinza.chamadas \o borrado
              \o <<Chamada("cv2.Canny", "", <<limiar1, limiar2, tamanho_abertura>>)>>
        invalido == validar_canny(limiar1, limiar2, tamanho_abertura)
        detail == "Erro no OpenCV ao aplicar detector Canny"
    IN  IF invalido # Nenhuma
        THEN [exc |-> Repassar(invalido, detail), img |-> SemImagem, chamadas |-> <<>>]
        ELSE IF falha = "filtro"
        THEN [exc |-> Repassar(Exception("cv2.error"), detail),
              img |-> SemImagem, chamadas |-> cs]
        ELSE [exc |-> Nenhuma,
              img |-> IF cinza.img.cor = Variado THEN cinza.img
                      ELSE [cinza.img EXCEPT !.cor = 0],
              chamadas |-> cs]

NIVEIS_CANNY_mut ==
    1 :> [limiar1 |-> 50,  limiar2 |-> 150, tamanho_abertura |-> 3, aplicar_blur |-> TRUE]
 @@ 2 :> [limiar1 |-> 100, limiar2 |-> 200, tamanho_abertura |-> 3, aplicar_blur |-> TRUE]
 @@ 3 :> [limiar1 |-> 250, limiar2 |-> 150, tamanho_abertura |-> 3, aplicar_blur |-> TRUE]

NIVEIS_CANNY ==
    1 :> [limiar1 |-> 50,  limiar2 |-> 150, tamanho_abertura |-> 3, aplicar_blur |-> TRUE]
 @@ 2 :> [limiar1 |-> 100, limiar2 |-> 200, tamanho_abertura |-> 3, aplicar_blur |-> TRUE]
 @@ 3 :> [limiar1 |-> 150, limiar2 |-> 250, tamanho_abertura |-> 3, aplicar_blur |-> TRUE]

Get_mut(niveis, nivel) == IF nivel \in DOMAIN niveis THEN niveis[nivel] ELSE niveis[1]

\* dict.get(nivel, NIVEIS[2])
Get(niveis, nivel) == IF nivel \in DOMAIN niveis THEN niveis[nivel] ELSE niveis[2]

aplicar_canny_nivel(im, nivel, falha) ==
    LET params == Get(NIVEIS_CANNY, nivel)
    IN  borda_canny(im, params.limiar1, params.limiar2, params.tamanho_abertura,
                    params.aplicar_blur, falha)

(***************************************************************************)
(* filtros/filtros_blur.py                                                 *)
(***************************************************************************)
\* "if k % 2 == 0: k += 1"
TornarImpar(k) == IF k % 2 = 0 THEN k + 1 ELSE k

filtro_gaussiano(im, kernel_width, kernel_height, sigma, falha) ==
    LET kw == TornarImpar(kernel_width)
        kh == TornarImpar(kernel_height)
        cs == <<Chamada("cv2.GaussianBlur", "", <<kw, kh, sigma>>)>>
    IN  IF falha = "filtro" \/ ~GaussianBlurAceita(kw, kh, sigma)
        THEN [exc |-> Exception("cv2.error"), img |-> SemImagem, chamadas |-> cs]
        ELSE [exc |-> Nenhuma, img |-> im, chamadas |-> cs]

filtro_bilateral(im, d, sigma_cor, sigma_espaco, falha) ==
    LET cs == <<Chamada("cv2.bilateralFilter", "", <<d, sigma_cor, sigma_espaco>>)>>
    IN  IF falha = "filtro"
        THEN [exc |-> Exception("cv2.error"), img |-> SemImagem, chamadas |-> cs]
        ELSE [exc |-> Nenhuma, img |-> im, chamadas |-> cs]

filtro_media(im, kernel_width, kernel_height, falha) ==
    LET cs == <<Chamada("cv2.blur", "", <<kernel_width, kernel_height>>)>>
    IN  IF falha = "filtro" \/ ~blurAceita(kernel_width, kernel_height)
        THEN [exc |-> Exception("cv2.error"), img |-> SemImagem, chamadas |-> cs]
        ELSE [exc |-> Nenhuma, img |-> im, chamadas |-> cs]

filtro_mediana(im, tamanho, falha) ==
    LET t  == TornarImpar(tamanho)
        cs == <<Chamada("cv2.medianBlur", "", <<t>>)>>
    IN  IF falha = "filtro" \/ ~medianBlurAceita(t)
        THEN [exc |-> Exception("cv2.error"), img |-> SemImagem, chamadas |-> cs]
        ELSE [exc |-> Nenhuma, img |-> im, chamadas |-> cs]

NIVEIS_GAUSSIANO_mut ==
    1 :> [kernel_width |-> 5,  kernel_height |-> 5,  sigma |-> 0]
 @@ 2 :> [kernel_width |-> 16, kernel_height |-> 16, sigma |-> 0]
 @@ 3 :> [kernel_width |-> 35, kernel_height |-> 35, sigma |-> 0]

NIVEIS_GAUSSIANO ==
    1 :> [kernel_width |-> 5,  kernel_height |-> 5,  sigma |-> 0]
 @@ 2 :> [kernel_width |-> 15, kernel_height |-> 15, sigma |-> 0]
 @@ 3 :> [kernel_width |-> 35, kernel_height |-> 35, sigma |-> 0]

NIVEIS_BILATERAL ==
    1 :> [d |-> 9,  sigma_cor |-> 25, sigma_espaco |-> 25]
 @@ 2 :> [d |-> 15, sigma_cor |-> 50, sigma_espaco |-> 50]
 @@ 3 :> [d |-> 25, sigma_cor |-> 75, sigma_espaco |-> 75]

NIVEIS_MEDIA ==
    1 :> [kernel_width |-> 3,  kernel_height |-> 3]
 @@ 2 :> [kernel_width |-> 7,  kernel_height |-> 7]
 @@ 3 :> [kernel_width |-> 15, kernel_height |-> 15]

NIVEIS_MEDIANA ==
    1 :> [tamanho |-> 3] @@ 2 :> [tamanho |-> 7] @@ 3 :> [tamanho |-> 15]

aplicar_gaussiano_nivel(im, nivel, falha) ==
    LET params == Get(NIVEIS_GAUSSIANO, nivel)
    IN  filtro_gaussiano(im, params.kernel_width, params.kernel_height, params.sigma, falha)

aplicar_bilateral_nivel(im, nivel, falha) ==
    LET params == Get(NIVEIS_BILATERAL, nivel)
    IN  filtro_bilateral(im, params.d, params.sigma_cor, params.sigma_espaco, falha)

aplicar_media_nivel(im, nivel, falha) ==
    LET params == Get(NIVEIS_MEDIA, nivel)
    IN  filtro_media(im, params.kernel_width, params.kernel_height, falha)

aplicar_mediana_nivel(im, nivel, falha) ==
    LET params == Get(NIVEIS_MEDIANA, nivel)
    IN  filtro_mediana(im, params.tamanho, falha)

(***************************************************************************)
(* filtros/utilitarios.py: imagem_para_base64                              *)
(***************************************************************************)
\* the characters of a format name
Letras(formato) ==
    CASE formato = "png"  -> <<"p", "n", "g">>
      [] formato = "PNG"  -> <<"P", "N", "G">>
      [] formato = "Png"  -> <<"P", "n", "g">>
      [] formato = "jpg"  -> <<"j", "p", "g">>
      [] formato = "JPG"  -> <<"J", "P", "G">>
      [] formato = "jPg"  -> <<"j", "P", "g">>
      [] formato = "jpeg" -> <<"j", "p", "e", "g">>
      [] formato = "JPEG" -> <<"J", "P", "E", "G">>
      [] formato = "JpEg" -> <<"J", "p", "E", "g">>
      [] formato = "gif"  -> <<"g", "i", "f">>
      [] formato = "webp" -> <<"w", "e", "b", "p">>
      [] formato = "jpe"  -> <<"j", "p", "e">>

formato_lower_mut(formato) == Letras(formato)

\* "formato_lower = formato.lower()"
formato_lower(formato) == lower(Letras(formato))

SemURI == [mime |-> "", codec |-> "", canais |-> 0]

\* `sucesso' is what cv2.imencode reports.  Returns [exc, uri, chamadas].
\* The arguments logged for cv2.imencode are the channels of the raster it
\* is given, followed by the value of IMWRITE_JPEG_QUALITY when one is passed.
imagem_para_base64(im, formato, sucesso) ==
    LET tres   == IF im.canais = 1
                  THEN [img |-> [im EXCEPT !.canais = 3],
                        chamadas |-> <<Chamada("cv2.cvtColor", "GRAY2BGR", <<>>)>>]
                  ELSE [img |-> im, chamadas |-> <<>>]
        jpeg   == formato_lower(formato) \in { <<"j", "p", "g">>, <<"j", "p", "e", "g">> }
        codec  == IF jpeg THEN ".jpg" ELSE ".png"
        mime   == IF jpeg THEN "image/jpeg" ELSE "image/png"
        cs     == tres.chamadas \o
                  <<Chamada("cv2.imencode", codec,
                            <<tres.img.canais>> \o (IF jpeg THEN <<95>> ELSE <<>>))>>
    IN  IF ~sucesso
        THEN [exc |-> Repassar(HTTPException(500, "Erro ao codificar imagem no formato", <<>>),
                               "Erro ao converter imagem para base64"),
              uri |-> SemURI, chamadas |-> cs]
        ELSE [exc |-> Nenhuma,
              uri |-> [mime |-> mime, codec |-> codec, canais |-> tres.img.canais],
              chamadas |-> cs \o <<Chamada("base64.b64encode", "", <<>>)>>]

(***************************************************************************)
(* filtros/utilitarios.py: criar_zip_resposta, limpar_arquivo_temporario   *)
(***************************************************************************)
NomesFiltro == {"sobel", "roberts", "canny", "gaussiano", "bilateral", "media",
                "mediana", "gaussiano_customizado", "bilateral_customizado",
                "media_customizado", "mediana_customizado", "canny_customizado"}

\* f"filtro_{nome_filtro}_nivel{nivel}.zip" or f"filtro_{nome_filtro}_customizado.zip";
\* nivel = 0 stands for None (both are falsy in "if nivel:")
nome_zip(nome_filtro, nivel) ==
    IF nivel # 0
    THEN <<"filtro", nome_filtro, "nivel", nivel>>
    ELSE <<"filtro", nome_filtro, "customizado">>

\* os.path.join("temp", nome_zip)
caminho_zip(nome_filtro, nivel) == <<"temp">> \o nome_zip(nome_filtro, nivel)

SemMetadados == [vazio |-> TRUE]

SemArquivo == [existe |-> FALSE, dono |-> 0, entradas |-> <<>>, info |-> SemMetadados]

\* "extensao = formato": the entries keep the format name the client chose
extensao_zip_mut(formato) == IF formato \in {"jpg", "jpeg"} THEN "jpg" ELSE formato

extensao_zip(formato) == formato

Entrada(base, ext) == [base |-> base, ext |-> ext]

Existe(fsys, caminho) == caminho \in DOMAIN fsys /\ fsys[caminho].existe

Escrever(fsys, caminho, arquivo) ==
    [c \in DOMAIN fsys \cup {caminho} |-> IF c = caminho THEN arquivo ELSE fsys[c]]

\* f'.{formato_cv2}'
sufixo_cv2(formato_cv2) ==
    CASE formato_cv2 = "jpg" -> ".jpg"
      [] formato_cv2 = "png" -> ".png"
      [] OTHER               -> formato_cv2

\* Returns [exc, caminho, fs, chamadas].  zipfile.ZipFile(caminho, 'w') creates
\* (or truncates) the file before anything is encoded; leaving the `with'
\* block, also by an exception, closes the archive with the entries written
\* so far.
criar_zip_resposta(fsys, dono, img_original, img_filtrada, metadados, nome_filtro, nivel, formato, falha) ==
    LET formato_cv2 == IF formato \in {"jpg", "jpeg"} THEN "jpg" ELSE formato
        extensao    == extensao_zip(formato)
        caminho     == caminho_zip(nome_filtro, nivel)
        abrir       == <<Chamada("zipfile.ZipFile", "w", <<>>)>>
        enc1        == Chamada("cv2.imencode", sufixo_cv2(formato_cv2),
                               <<img_original.canais>>)
        enc2        == Chamada("cv2.imencode", sufixo_cv2(formato_cv2),
                               <<img_filtrada.canais>>)
        e1          == Entrada("original", extensao)
        e2          == Entrada("filtrada", extensao)
        e3          == Entrada("info", "json")
        arq(es)     == [existe |-> TRUE, dono |-> dono, entradas |-> es,
                        info |-> IF Len(es) = 3 THEN metadados ELSE SemMetadados]
        erro        == HTTPException(500, "Erro ao criar arquivo ZIP", <<>>)
    IN  IF falha = "encode_original"
        THEN [exc |-> erro, caminho |-> caminho,
              fs |-> Escrever(fsys, caminho, arq(<<>>)),
              chamadas |-> abrir \o <<enc1>>]
        ELSE IF falha = "encode_filtrada"
        THEN [exc |-> erro, caminho |-> caminho,
              fs |-> Escrever(fsys, caminho, arq(<<e1>>)),
              chamadas |-> abrir \o <<enc1, Chamada("zipf.writestr", "original", <<>>),
                                      enc2>>]
        ELSE [exc |-> Nenhuma, caminho |-> caminho,
              fs |-> Escrever(fsys, caminho, arq(<<e1, e2, e3>>)),
              chamadas |-> abrir \o <<enc1, Chamada("zipf.writestr", "original", <<>>),
                                      enc2, Chamada("zipf.writestr", "filtrada", <<>>),
                                      Chamada("zipf.writestr", "info.json", <<>>)>>]

\* Returns [exc, fs, avisos, chamadas]: "except Exception" catches whatever
\* os.path.exists or os.remove raises, and the failure is printed.
limpar_arquivo_temporario_mut(fsys, caminho, falha) ==
    [exc |-> Nenhuma, fs |-> fsys, avisos |-> <<>>, chamadas |-> <<>>]

\* the same without the try block
limpar_arquivo_temporario_sem_try(fsys, caminho, falha) ==
    IF ~Existe(fsys, caminho)
    THEN [exc |-> Nenhuma, fs |-> fsys, avisos |-> <<>>, chamadas |-> <<>>]
    ELSE IF falha = "remove"
    THEN [exc |-> Exception("OSError"), fs |-> fsys, avisos |-> <<>>,
          chamadas |-> <<Chamada("os.remove", "falhou", <<>>)>>]
    ELSE [exc |-> Nenhuma, fs |-> Escrever(fsys, caminho, SemArquivo), avisos |-> <<>>,
          chamadas |-> <<Chamada("os.remove", "", <<>>)>>]

limpar_arquivo_temporario(fsys, caminho, falha) ==
    IF ~Existe(fsys, caminho)
    THEN [exc |-> Nenhuma, fs |-> fsys, avisos |-> <<>>, chamadas |-> <<>>]
    ELSE IF falha = "remove"
    THEN [exc |-> Nenhuma, fs |-> fsys,
          avisos |-> <<"Aviso: Nao foi possivel remover arquivo temporario">>,
          chamadas |-> <<Chamada("os.remove", "falhou", <<>>)>>]
    ELSE [exc |-> Nenhuma, fs |-> Escrever(fsys, caminho, SemArquivo), avisos |-> <<>>,
          chamadas |-> <<Chamada("os.remove", "", <<>>)>>]

(***************************************************************************)
(* principal.py: exception handlers                                        *)
(***************************************************************************)
SemResposta == [status |-> 0, tipo |-> "nenhuma"]

http_exception_handler_mut(exc) ==
    [status |-> exc.status, tipo |-> "erro",
     corpo |-> [detail |-> [msg |-> exc.msg, detalhe |-> "", vals |-> exc.vals]]]

http_exception_handler(exc) ==
    [status |-> exc.status, tipo |-> "erro",
     corpo |-> [mensagem |-> [msg |-> exc.msg, detalhe |-> "", vals |-> exc.vals]]]

generic_exception_handler(exc) ==
    [status |-> 500, tipo |-> "erro",
     corpo |-> [mensagem |-> [msg |-> "Erro interno do servidor", detalhe |-> exc.msg,
                              vals |-> <<>>]]]

\* `erros': the fields the framework found invalid ("loc" of each error)
validation_exception_handler(erros) ==
    [status |-> 422, tipo |-> "erro",
     corpo |-> [mensagem |-> [msg |-> "Erro de validacao", detalhe |-> "", vals |-> erros]]]

\* the handler registered for the class of the exception
RespostaDeErro(exc) ==
    IF exc.tipo = "HTTPException"
    THEN http_exception_handler(exc)
    ELSE generic_exception_handler(exc)

(***************************************************************************)
(* principal.py: the endpoints.  An endpoint is a filter, a mode ("nivel"  *)
(* or "customizado") and a response shape (inline JSON or /download).      *)
(***************************************************************************)
SemParametros == [nenhum |-> TRUE]

aplicar_filtro_mut(e, im) ==
    CASE e.modo = "nivel" /\ e.filtro = "sobel"     ->
            IF e.nivel = 3 THEN borda_roberts(im, e.falha) ELSE borda_sobel(im, e.falha)
      [] e.modo = "nivel" /\ e.filtro = "roberts"   -> borda_roberts(im, e.falha)
      [] e.modo = "nivel" /\ e.filtro = "canny"     -> aplicar_canny_nivel(im, e.nivel, e.falha)
      [] e.modo = "nivel" /\ e.filtro = "gaussiano" -> aplicar_gaussiano_nivel(im, e.nivel, e.falha)
      [] e.modo = "nivel" /\ e.filtro = "bilateral" -> aplicar_bilateral_nivel(im, e.nivel, e.falha)
      [] e.modo = "nivel" /\ e.filtro = "media"     -> aplicar_media_nivel(im, e.nivel, e.falha)
      [] e.modo = "nivel" /\ e.filtro = "mediana"   -> aplicar_mediana_nivel(im, e.nivel, e.falha)
      [] e.modo = "customizado" /\ e.filtro = "gaussiano" ->
            filtro_gaussiano(im, e.params.kernel_width, e.params.kernel_height,
                             e.params.sigma, e.falha)
      [] e.modo = "customizado" /\ e.filtro = "bilateral" ->
            filtro_bilateral(im, e.params.d, e.params.sigma_cor, e.params.sigma_espaco,
                             e.falha)
      [] e.modo = "customizado" /\ e.filtro = "media" ->
            filtro_media(im, e.params.kernel_width, e.params.kernel_height, e.falha)
      [] e.modo = "customizado" /\ e.filtro = "mediana" ->
            filtro_mediana(im, e.params.tamanho, e.falha)
      [] e.modo = "customizado" /\ e.filtro = "canny" ->
            borda_canny(im, e.params.limiar1, e.params.limiar2,
                        e.params.tamanho_abertura, e.params.aplicar_blur, e.falha)

\* the call each handler makes to the filter library
aplicar_filtro(e, im) ==
    CASE e.modo = "nivel" /\ e.filtro = "sobel"     -> borda_sobel(im, e.falha)
      [] e.modo = "nivel" /\ e.filtro = "roberts"   -> borda_roberts(im, e.falha)
      [] e.modo = "nivel" /\ e.filtro = "canny"     -> aplicar_canny_nivel(im, e.nivel, e.falha)
      [] e.modo = "nivel" /\ e.filtro = "gaussiano" -> aplicar_gaussiano_nivel(im, e.nivel, e.falha)
      [] e.modo = "nivel" /\ e.filtro = "bilateral" -> aplicar_bilateral_nivel(im, e.nivel, e.falha)
      [] e.modo = "nivel" /\ e.filtro = "media"     -> aplicar_media_nivel(im, e.nivel, e.falha)
      [] e.modo = "nivel" /\ e.filtro = "mediana"   -> aplicar_mediana_nivel(im, e.nivel, e.falha)
      [] e.modo = "customizado" /\ e.filtro = "gaussiano" ->
            filtro_gaussiano(im, e.params.kernel_width, e.params.kernel_height,
                             e.params.sigma, e.falha)
      [] e.modo = "customizado" /\ e.filtro = "bilateral" ->
            filtro_bilateral(im, e.params.d, e.params.sigma_cor, e.params.sigma_espaco,
                             e.falha)
      [] e.modo = "customizado" /\ e.filtro = "media" ->
            filtro_media(im, e.params.kernel_width, e.params.kernel_height, e.falha)
      [] e.modo = "customizado" /\ e.filtro = "mediana" ->
            filtro_mediana(im, e.params.tamanho, e.falha)
      [] e.modo = "customizado" /\ e.filtro = "canny" ->
            borda_canny(im, e.params.limiar1, e.params.limiar2,
                        e.params.tamanho_abertura, e.params.aplicar_blur, e.falha)

\* the preset catalog of each filter (NIVEIS_<FILTRO>); deteccao_bordas.py
\* defines none for borda_sobel and borda_roberts
Catalogo(filtro) ==
    CASE filtro = "canny"     -> NIVEIS_CANNY
      [] filtro = "gaussiano" -> NIVEIS_GAUSSIANO
      [] filtro = "bilateral" -> NIVEIS_BILATERAL
      [] filtro = "media"     -> NIVEIS_MEDIA
      [] filtro = "mediana"   -> NIVEIS_MEDIANA
      [] OTHER                -> <<>>

\* the "parametros" value each handler reports
parametros_resposta(e) ==
    CASE e.modo = "customizado"                     -> e.params
      [] e.modo = "nivel" /\ e.filtro = "canny"     -> NIVEIS_CANNY[e.nivel]
      [] e.modo = "nivel" /\ e.filtro = "gaussiano" -> NIVEIS_GAUSSIANO[e.nivel]
      [] e.modo = "nivel" /\ e.filtro = "bilateral" -> NIVEIS_BILATERAL[e.nivel]
      [] e.modo = "nivel" /\ e.filtro = "media"     -> NIVEIS_MEDIA[e.nivel]
      [] e.modo = "nivel" /\ e.filtro = "mediana"   -> NIVEIS_MEDIANA[e.nivel]
      [] OTHER                                      -> SemParametros

\* the nome_filtro and nivel arguments each /download handler gives criar_zip_resposta
nome_filtro_zip(e) ==
    IF e.modo = "customizado"
    THEN CASE e.filtro = "gaussiano" -> "gaussiano_customizado"
           [] e.filtro = "bilateral" -> "bilateral_customizado"
           [] e.filtro = "media"     -> "media_customizado"
           [] e.filtro = "mediana"   -> "mediana_customizado"
           [] e.filtro = "canny"     -> "canny_customizado"
    ELSE e.filtro

nivel_zip(e) == IF e.modo = "customizado" THEN 0 ELSE e.nivel

\* the "metadados" dict of the /download handlers (nivel 0: no "nivel" key;
\* SemParametros: no "parametros" key)
metadados_zip(e) ==
    [filtro |-> e.filtro, nivel |-> nivel_zip(e), parametros |-> parametros_resposta(e)]

(***************************************************************************)
(* The inputs the requests are drawn from.                                 *)
(***************************************************************************)
Formatos == {"png", "jpeg", "jpg"}

\* which library call of the request fails, if any
Falhas == {"nenhuma", "read", "filtro", "encode_original", "encode_filtrada", "remove"}

Upload(filename, tamanho, decodifica, altura, largura) ==
    [filename |-> filename, tamanho |-> tamanho, decodifica |-> decodifica,
     altura |-> altura, largura |-> largura, cor |-> Variado]

UploadValido == Upload(<<"a", ".", "p", "n", "g">>, 2048, TRUE, 10, 10)

\* one upload per outcome of processar_imagem_upload
UploadsServidor ==
    { UploadValido,
      Upload(<<"b", ".", "J", "P", "G">>, TamanhoMaximo, TRUE, 64, 48),
      Upload(<<"a", ".", "p", "n", "g">>, 0, FALSE, 0, 0),
      Upload(<<"a", ".", "p", "n", "g">>, TamanhoMaximo + 1, TRUE, 64, 48),
      Upload(<<"c", ".", "g", "i", "f">>, 2048, TRUE, 64, 48),
      Upload(<<"a", ".", "p", "n", "g">>, 2048, FALSE, 0, 0),
      Upload(<<"a", ".", "p", "n", "g">>, 2048, TRUE, 9, 10) }

NomesDeArquivo ==
    { <<>>, <<"a", ".", "p", "n", "g">>, <<"a", ".", "P", "N", "G">>,
      <<"b", ".", "j", "p", "g">>, <<"b", ".", "J", "p", "e", "g">>,
      <<"c", ".", "g", "i", "f">>, <<".", "p", "n", "g">>, <<"p", "n", "g">>,
      <<"d", ".", "p", "n", "g", ".", "t", "x", "t">> }

\* every combination of file name, length, decodability and dimensions
UploadsTodos ==
    { Upload(f, t, d, a, l) :
        f \in NomesDeArquivo,
        t \in {0, 1, TamanhoMaximo - 1, TamanhoMaximo, TamanhoMaximo + 1},
        d \in BOOLEAN, a \in {9, 10}, l \in {9, 10} }

Pedido(filtro, modo, nivel, params, download, formato, upload, falha) ==
    [filtro |-> filtro, modo |-> modo, nivel |-> nivel, params |-> params,
     download |-> download, formato |-> formato, upload |-> upload, falha |-> falha]

SemPedido == Pedido("", "", 0, SemParametros, FALSE, "", UploadValido, "nenhuma")

ParamsGaussiano ==
    { [kernel_width |-> kw, kernel_height |-> kh, sigma |-> s] :
        kw \in {-1, 0, 4, 5, 99, 100, 101}, kh \in {4, 5}, s \in {0, 2} }

ParamsBilateral ==
    { [d |-> d, sigma_cor |-> 75, sigma_espaco |-> 75] : d \in {0, 9} }

ParamsMedia ==
    { [kernel_width |-> kw, kernel_height |-> 3] : kw \in {0, 3, 4, 101} }

ParamsMediana == { [tamanho |-> t] : t \in {-1, 0, 3, 4, 99, 100, 101} }

ParamsCanny ==
    { [limiar1 |-> l1, limiar2 |-> l2, tamanho_abertura |-> ta, aplicar_blur |-> b] :
        l1 \in {-1, 0, 100, 255, 256}, l2 \in {-1, 0, 100, 255, 256},
        ta \in {3, 4, 7, 9}, b \in BOOLEAN }

ParamsCustomizados(filtro) ==
    CASE filtro = "gaussiano" -> ParamsGaussiano
      [] filtro = "bilateral" -> ParamsBilateral
      [] filtro = "media"     -> ParamsMedia
      [] filtro = "mediana"   -> ParamsMediana
      [] filtro = "canny"     -> ParamsCanny

FiltrosNivel == {"sobel", "roberts", "canny", "gaussiano", "bilateral", "media", "mediana"}

FiltrosCustomizados == {"canny", "gaussiano", "bilateral", "media", "mediana"}

\* NivelFiltro
Niveis == {1, 2, 3}

\* the fields of a request that do not fit the types the handler declares:
\* "nivel: NivelFiltro = Path(...)" and "formato: FormatoImagem = Query(...)"
ErrosDeEsquema(e) ==
    (IF e.modo = "nivel" /\ e.nivel \notin Niveis THEN <<"path -> nivel">> ELSE <<>>)
    \o (IF e.formato \notin Formatos THEN <<"query -> formato">> ELSE <<>>)

\* an upload and the library call that fails: a failure is injected only
\* where the call is reached
Ambientes ==
    { <<u, "nenhuma">> : u \in UploadsServidor }
    \cup { <<UploadValido, fa>> : fa \in Falhas }

\* the requests of the sequential specification: every endpoint
Pedidos ==
    { Pedido(f, "nivel", n, SemParametros, d, fo, a[1], a[2]) :
        f \in FiltrosNivel, n \in Niveis, d \in BOOLEAN, fo \in Formatos,
        a \in Ambientes }
    \cup UNION { { Pedido(f, "customizado", 0, p, d, fo, a[1], a[2]) :
                     p \in ParamsCustomizados(f), d \in BOOLEAN, fo \in Formatos,
                     a \in Ambientes } :
                 f \in FiltrosCustomizados }

\* requests on the level endpoints with a level or a format outside the enums
PedidosMalFormados ==
    { e \in { Pedido(f, "nivel", n, SemParametros, d, fo, UploadValido, "nenhuma") :
                f \in FiltrosNivel, n \in Niveis \cup {0, 4}, d \in BOOLEAN,
                fo \in Formatos \cup {"gif"} } :
        ErrosDeEsquema(e) # <<>> }

\* the requests of the concurrent specification: /download endpoints that
\* share or do not share a file name, and one inline endpoint
PedidosConcorrentes ==
    { Pedido("gaussiano", "nivel", 1, SemParametros, FALSE, "png", UploadValido, "nenhuma") }
    \cup
    { Pedido("gaussiano", "nivel", n, SemParametros, TRUE, "png", UploadValido, fa) :
        n \in {1, 2}, fa \in {"nenhuma", "encode_original", "remove"} }
    \cup { Pedido("mediana", "customizado", 0, [tamanho |-> 3], TRUE, "jpeg",
                  UploadValido, fa) :
             fa \in {"nenhuma", "encode_filtrada", "remove"} }

(***************************************************************************)
(* State machine.  pc[r]: "ocioso" -> "upload" -> "filtro" -> "montar" ->  *)
(* "respondido" (inline and failed requests), or "montar" -> "enviar" ->   *)
(* "limpar" -> "concluido" (a /download request).                          *)
(***************************************************************************)
SemImagens == [original |-> SemImagem, filtrada |-> SemImagem]

Init ==
    /\ req = [r \in Req |-> SemPedido]
    /\ pc = [r \in Req |-> "ocioso"]
    /\ img = [r \in Req |-> SemImagens]
    /\ chamadas = [r \in Req |-> <<>>]
    /\ resp = [r \in Req |-> SemResposta]
    /\ fs = <<>>
    /\ tarefas = [r \in Req |-> <<>>]
    /\ avisos = [r \in Req |-> <<>>]

\* the framework validates the request against the handler's signature and
\* calls the handler ("inicio = time.time()"), or answers with the
\* RequestValidationError handler
Iniciar(r, e) ==
    /\ pc[r] = "ocioso"
    /\ req' = [req EXCEPT ![r] = e]
    /\ IF ErrosDeEsquema(e) # <<>>
       THEN /\ resp' = [resp EXCEPT ![r] = validation_exception_handler(ErrosDeEsquema(e))]
            /\ pc' = [pc EXCEPT ![r] = "respondido"]
            /\ UNCHANGED chamadas
       ELSE /\ pc' = [pc EXCEPT ![r] = "upload"]
            /\ chamadas' = [chamadas EXCEPT ![r] =
                               <<Chamada("time.time", "inicio", <<>>)>>]
            /\ UNCHANGED resp
    /\ UNCHANGED <<img, fs, tarefas, avisos>>

\* an exception leaves the handler: the registered handler answers
Falhar(r, exc, cs) ==
    /\ resp' = [resp EXCEPT ![r] = RespostaDeErro(exc)]
    /\ pc' = [pc EXCEPT ![r] = "respondido"]
    /\ chamadas' = [chamadas EXCEPT ![r] = @ \o cs]

\* "img_original = await processar_imagem_upload(arquivo)"
ProcessarUpload(r) ==
    /\ pc[r] = "upload"
    /\ LET res == processar_imagem_upload(req[r].upload, req[r].falha)
       IN  IF res.exc # Nenhuma
           THEN /\ Falhar(r, res.exc, res.chamadas)
                /\ UNCHANGED img
           ELSE /\ img' = [img EXCEPT ![r].original = res.img]
                /\ pc' = [pc EXCEPT ![r] = "filtro"]
                /\ chamadas' = [chamadas EXCEPT ![r] = @ \o res.chamadas]
                /\ UNCHANGED resp
    /\ UNCHANGED <<req, fs, tarefas, avisos>>

tempo_ms_mut(cs) == <<Chamada("time.time", "fim", <<>>)>> \o cs

\* "tempo_ms = (time.time() - inicio) * 1000", the statement after the call
\* to the filter: `cs' are the calls the filter made
tempo_ms(cs) == cs \o <<Chamada("time.time", "fim", <<>>)>>

\* "img_filtrada = <filter>(img_original, ...)" and
\* "tempo_ms = (time.time() - inicio) * 1000"
Filtrar(r) ==
    /\ pc[r] = "filtro"
    /\ LET res == aplicar_filtro(req[r], img[r].original)
       IN  IF res.exc # Nenhuma
           THEN /\ Falhar(r, res.exc, res.chamadas)
                /\ UNCHANGED img
           ELSE /\ img' = [img EXCEPT ![r].filtrada = res.img]
                /\ pc' = [pc EXCEPT ![r] = "montar"]
                /\ chamadas' = [chamadas EXCEPT ![r] = @ \o tempo_ms(res.chamadas)]
                /\ UNCHANGED resp
    /\ UNCHANGED <<req, fs, tarefas, avisos>>

\* "return RespostaFiltroJSON(imagem_original=imagem_para_base64(...), ...)"
MontarJSON(r) ==
    /\ pc[r] = "montar"
    /\ ~req[r].download
    /\ LET e == req[r]
           o == imagem_para_base64(img[r].original, e.formato, e.falha # "encode_original")
           f == imagem_para_base64(img[r].filtrada, e.formato, e.falha # "encode_filtrada")
       IN  IF o.exc # Nenhuma THEN Falhar(r, o.exc, o.chamadas)
           ELSE IF f.exc # Nenhuma THEN Falhar(r, f.exc, o.chamadas \o f.chamadas)
           ELSE /\ resp' = [resp EXCEPT ![r] =
                              [status |-> 200, tipo |-> "json",
                               corpo |-> [imagem_original |-> o.uri,
                                          imagem_filtrada |-> f.uri,
                                          filtro |-> e.filtro,
                                          nivel |-> nivel_zip(e),
                                          parametros |-> parametros_resposta(e)]]]
                /\ pc' = [pc EXCEPT ![r] = "respondido"]
                /\ chamadas' = [chamadas EXCEPT ![r] = @ \o o.chamadas \o f.chamadas]
    /\ UNCHANGED <<req, img, fs, tarefas, avisos>>

\* "caminho_zip = criar_zip_resposta(...)",
\* "background_tasks.add_task(limpar_arquivo_temporario, caminho_zip)" and
\* "return FileResponse(caminho_zip, ...)"
MontarZip(r) ==
    /\ pc[r] = "montar"
    /\ req[r].download
    /\ LET e == req[r]
           z == criar_zip_resposta(fs, r, img[r].original, img[r].filtrada,
                                   metadados_zip(e), nome_filtro_zip(e), nivel_zip(e),
                                   e.formato, e.falha)
       IN  /\ fs' = z.fs
           /\ IF z.exc # Nenhuma
              THEN /\ Falhar(r, z.exc, z.chamadas)
                   /\ UNCHANGED tarefas
              ELSE /\ tarefas' = [tarefas EXCEPT ![r] = <<z.caminho>>]
                   /\ pc' = [pc EXCEPT ![r] = "enviar"]
                   /\ chamadas' = [chamadas EXCEPT ![r] =
                                      @ \o z.chamadas
                                        \o <<Chamada("background_tasks.add_task", "", <<>>)>>]
                   /\ UNCHANGED resp
    /\ UNCHANGED <<req, img, avisos>>

\* the transport sends the FileResponse: it reads the file at caminho_zip
\* as it is now; a missing file is a RuntimeError and no task runs
Transmitir(r) ==
    /\ pc[r] = "enviar"
    /\ LET caminho == tarefas[r][1]
       IN  IF Existe(fs, caminho)
           THEN /\ resp' = [resp EXCEPT ![r] =
                              [status |-> 200, tipo |-> "zip",
                               corpo |-> [arquivo |-> fs[caminho]]]]
                /\ pc' = [pc EXCEPT ![r] = "limpar"]
                /\ chamadas' = [chamadas EXCEPT ![r] =
                                   @ \o <<Chamada("FileResponse", "enviado", <<>>)>>]
           ELSE Falhar(r, Exception("RuntimeError"), <<>>)
    /\ UNCHANGED <<req, img, fs, tarefas, avisos>>

\* the background task runs after the response was sent
Limpar(r) ==
    /\ pc[r] = "limpar"
    /\ LET l == limpar_arquivo_temporario(fs, tarefas[r][1], req[r].falha)
       IN  /\ fs' = l.fs
           /\ avisos' = [avisos EXCEPT ![r] = @ \o l.avisos]
           /\ chamadas' = [chamadas EXCEPT ![r] = @ \o l.chamadas]
    /\ pc' = [pc EXCEPT ![r] = "concluido"]
    /\ UNCHANGED <<req, img, resp, tarefas>>

Passo(r) ==
    \/ ProcessarUpload(r)
    \/ Filtrar(r)
    \/ MontarJSON(r)
    \/ MontarZip(r)
    \/ Transmitir(r)
    \/ Limpar(r)

\* one request at a time, any endpoint
Next ==
    \/ pc[1] = "ocioso" /\ \E e \in Pedidos \cup PedidosMalFormados : Iniciar(1, e)
    \/ Passo(1)

Spec == Init /\ [][Next]_vars

\* NumReq requests in flight on the /download endpoints
NextConc ==
    \E r \in Req :
        \/ pc[r] = "ocioso" /\ \E e \in PedidosConcorrentes : Iniciar(r, e)
        \/ Passo(r)

SpecConc == Init /\ [][NextConc]_vars

\* the framework runs every scheduled background task
SpecConcJusta == SpecConc /\ \A r \in Req : WF_vars(Limpar(r))

\* imagem_para_base64 alone (the two calls of an inline handler), on format
\* names in any case and on rasters of one and of three channels
FormatosTexto ==
    {"png", "PNG", "Png", "jpg", "JPG", "jPg", "jpeg", "JPEG", "JpEg", "gif", "webp", "jpe"}

InitBase64 ==
    /\ \E fo \in FormatosTexto, fa \in {"nenhuma", "encode_original", "encode_filtrada"},
          c \in {1, 3}, a \in {10, 64} :
          /\ req = [r \in Req |->
                      IF r = 1
                      THEN Pedido("sobel", "nivel", 1, SemParametros, FALSE, fo,
                                  Upload(<<"a", ".", "p", "n", "g">>, 2048, TRUE, a, 10), fa)
                      ELSE SemPedido]
          /\ img = [r \in Req |->
                      IF r = 1
                      THEN [original |-> [canais |-> 3, altura |-> a, largura |-> 10,
                                          cor |-> Variado],
                            filtrada |-> [canais |-> c, altura |-> a, largura |-> 10,
                                          cor |-> Variado]]
                      ELSE SemImagens]
    /\ pc = [r \in Req |-> IF r = 1 THEN "montar" ELSE "ocioso"]
    /\ chamadas = [r \in Req |-> <<>>]
    /\ resp = [r \in Req |-> SemResposta]
    /\ fs = <<>>
    /\ tarefas = [r \in Req |-> <<>>]
    /\ avisos = [r \in Req |-> <<>>]

NextBase64 == MontarJSON(1)

SpecBase64 == InitBase64 /\ [][NextBase64]_vars

\* borda_sobel and borda_roberts alone, on uniform rasters of every gray or
\* colour-channel value and on a raster that is not uniform
CoresDeTeste == 0..255 \cup {Variado}

InitBordas ==
    /\ \E f \in {"sobel", "roberts"}, k \in CoresDeTeste, c \in {1, 3} :
          /\ req = [r \in Req |->
                      IF r = 1
                      THEN Pedido(f, "nivel", 1, SemParametros, FALSE, "png",
                                  [UploadValido EXCEPT !.cor = k], "nenhuma")
                      ELSE SemPedido]
          /\ img = [r \in Req |->
                      IF r = 1
                      THEN [original |-> [canais |-> c, altura |-> 10, largura |-> 10,
                                          cor |-> k],
                            filtrada |-> SemImagem]
                      ELSE SemImagens]
    /\ pc = [r \in Req |-> IF r = 1 THEN "filtro" ELSE "ocioso"]
    /\ chamadas = [r \in Req |-> <<>>]
    /\ resp = [r \in Req |-> SemResposta]
    /\ fs = <<>>
    /\ tarefas = [r \in Req |-> <<>>]
    /\ avisos = [r \in Req |-> <<>>]

NextBordas == Filtrar(1)

SpecBordas == InitBordas /\ [][NextBordas]_vars

\* processar_imagem_upload alone, on every upload of UploadsTodos
InitUpload ==
    /\ \E u \in UploadsTodos :
          req = [r \in Req |->
                   IF r = 1
                   THEN Pedido("sobel", "nivel", 1, SemParametros, FALSE, "png", u, "nenhuma")
                   ELSE SemPedido]
    /\ pc = [r \in Req |-> IF r = 1 THEN "upload" ELSE "ocioso"]
    /\ img = [r \in Req |-> SemImagens]
    /\ chamadas = [r \in Req |-> <<>>]
    /\ resp = [r \in Req |-> SemResposta]
    /\ fs = <<>>
    /\ tarefas = [r \in Req |-> <<>>]
    /\ avisos = [r \in Req |-> <<>>]

NextUpload == ProcessarUpload(1)

SpecUpload == InitUpload /\ [][NextUpload]_vars

\* The functions of validacao.py and borda_canny called on their own: a call
\* is a request record whose `filtro' names the function and whose `params'
\* are the arguments; pc[r] goes from "chamada" to "retornou", or to
\* "respondido" with the answer http_exception_handler gives the exception.
ChamadaDeFuncao(funcao, args) ==
    Pedido(funcao, "funcao", 0, args, FALSE, "png", UploadValido, "nenhuma")

ChamadasKernel ==
    { ChamadaDeFuncao("validar_kernel_impar", [kernel_size |-> k, nome_parametro |-> n]) :
        k \in -3..103, n \in {"kernel_width", "tamanho"} }

ChamadasIntervalo ==
    { ChamadaDeFuncao("validar_intervalo",
                      [valor |-> v, minimo |-> i[1], maximo |-> i[2], nome_parametro |-> "limiar1"]) :
        v \in -2..257, i \in {<<0, 255>>, <<1, 99>>, <<7, 7>>} }

ChamadasCanny ==
    { ChamadaDeFuncao("borda_canny", p) : p \in ParamsCanny }

InitValidacao ==
    /\ \E e \in ChamadasKernel \cup ChamadasIntervalo \cup ChamadasCanny :
          req = [r \in Req |-> IF r = 1 THEN e ELSE SemPedido]
    /\ pc = [r \in Req |-> IF r = 1 THEN "chamada" ELSE "ocioso"]
    /\ img = [r \in Req |->
                IF r = 1 THEN [original |-> imdecode(UploadValido), filtrada |-> SemImagem]
                ELSE SemImagens]
    /\ chamadas = [r \in Req |-> <<>>]
    /\ resp = [r \in Req |-> SemResposta]
    /\ fs = <<>>
    /\ tarefas = [r \in Req |-> <<>>]
    /\ avisos = [r \in Req |-> <<>>]

\* the function returned or raised
Retornar(r, res) ==
    IF res.exc # Nenhuma
    THEN /\ Falhar(r, res.exc, res.chamadas)
         /\ UNCHANGED img
    ELSE /\ pc' = [pc EXCEPT ![r] = "retornou"]
         /\ img' = [img EXCEPT ![r].filtrada = res.img]
         /\ chamadas' = [chamadas EXCEPT ![r] = @ \o res.chamadas]
         /\ UNCHANGED resp

ChamarValidarKernel(r) ==
    /\ pc[r] = "chamada"
    /\ req[r].filtro = "validar_kernel_impar"
    /\ Retornar(r, [exc |-> validar_kernel_impar(req[r].params.kernel_size,
                                                 req[r].params.nome_parametro),
                    img |-> SemImagem, chamadas |-> <<>>])
    /\ UNCHANGED <<req, fs, tarefas, avisos>>

ChamarValidarIntervalo(r) ==
    /\ pc[r] = "chamada"
    /\ req[r].filtro = "validar_intervalo"
    /\ Retornar(r, [exc |-> validar_intervalo(req[r].params.valor, req[r].params.minimo,
                                              req[r].params.maximo,
                                              req[r].params.nome_parametro),
                    img |-> SemImagem, chamadas |-> <<>>])
    /\ UNCHANGED <<req, fs, tarefas, avisos>>

ChamarBordaCanny(r) ==
    /\ pc[r] = "chamada"
    /\ req[r].filtro = "borda_canny"
    /\ Retornar(r, borda_canny(img[r].original, req[r].params.limiar1,
                               req[r].params.limiar2, req[r].params.tamanho_abertura,
                               req[r].params.aplicar_blur, req[r].falha))
    /\ UNCHANGED <<req, fs, tarefas, avisos>>

NextValidacao ==
    \/ ChamarValidarKernel(1)
    \/ ChamarValidarIntervalo(1)
    \/ ChamarBordaCanny(1)

SpecValidacao == InitValidacao /\ [][NextValidacao]_vars

\* The application, and the aplicar_*_nivel functions called on their own
\* with any integer as level ("nivel: int"), the framework's check of the
\* path parameter left out.
NiveisDeChamada == -1..5

ChamadasNivel ==
    { Pedido(f, "nivel", n, SemParametros, FALSE, "png", UploadValido, "nenhuma") :
        f \in FiltrosCustomizados, n \in NiveisDeChamada }

InitNivel ==
    \/ Init
    \/ /\ \E e \in ChamadasNivel :
              req = [r \in Req |-> IF r = 1 THEN e ELSE SemPedido]
       /\ pc = [r \in Req |-> IF r = 1 THEN "chamada" ELSE "ocioso"]
       /\ img = [r \in Req |->
                   IF r = 1 THEN [original |-> imdecode(UploadValido), filtrada |-> SemImagem]
                   ELSE SemImagens]
       /\ chamadas = [r \in Req |-> <<>>]
       /\ resp = [r \in Req |-> SemResposta]
       /\ fs = <<>>
       /\ tarefas = [r \in Req |-> <<>>]
       /\ avisos = [r \in Req |-> <<>>]

ChamarAplicarNivel(r) ==
    /\ pc[r] = "chamada"
    /\ req[r].modo = "nivel"
    /\ Retornar(r, aplicar_filtro(req[r], img[r].original))
    /\ UNCHANGED <<req, fs, tarefas, avisos>>

NextNivel ==
    \/ Next
    \/ ChamarAplicarNivel(1)

SpecNivel == InitNivel /\ [][NextNivel]_vars

\* The sobel and roberts level endpoints, one request after the other, on
\* uploads whose raster is uniform or not.
PedidosBorda ==
    { Pedido(f, "nivel", n, SemParametros, d, "png", [UploadValido EXCEPT !.cor = k],
             "nenhuma") :
        f \in {"sobel", "roberts"}, n \in Niveis, d \in BOOLEAN, k \in {Variado, 0, 11} }

NextBordasNivel ==
    \E r \in Req :
        \/ /\ pc[r] = "ocioso"
           /\ \A q \in 1..(r - 1) : pc[q] \in {"respondido", "concluido"}
           /\ \E e \in PedidosBorda : Iniciar(r, e)
        \/ Passo(r)

SpecBordasNivel == Init /\ [][NextBordasNivel]_vars

(***************************************************************************)
(* Vocabulary of the properties.                                           *)
(***************************************************************************)
Terminado(r) == pc[r] \in {"respondido", "concluido"}

\* the calls of request r to one of the operations `ops'
ChamadasA(r, ops) == { i \in 1..Len(chamadas[r]) : chamadas[r][i].op \in ops }

\* grayscale conversion, pre-blur, Canny transform
PassosDePixelCanny(r) ==
    { i \in 1..Len(chamadas[r]) :
        \/ chamadas[r][i].op \in {"cv2.GaussianBlur", "cv2.Canny"}
        \/ chamadas[r][i].op = "cv2.cvtColor" /\ chamadas[r][i].alvo = "BGR2GRAY" }

MensagensDeParametro ==
    {"deve estar entre", "tamanho_abertura deve ser 3, 5 ou 7",
     "limiar2 deve ser maior que limiar1"}

CannyCustomizado(r) == req[r].filtro = "canny" /\ req[r].modo = "customizado"

ParametrosCannyInvalidos(p) ==
    \/ p.limiar2 <= p.limiar1
    \/ p.tamanho_abertura \notin {3, 5, 7}
    \/ p.limiar1 < 0 \/ p.limiar1 > 255
    \/ p.limiar2 < 0 \/ p.limiar2 > 255

\* the path criar_zip_resposta uses for request r
CaminhoDe(r) == caminho_zip(nome_filtro_zip(req[r]), nivel_zip(req[r]))

\* the archive at r's path is the one r wrote
ArquivoProprio(r) == Existe(fs, CaminhoDe(r)) /\ fs[CaminhoDe(r)].dono = r

TresEntradas(ext) ==
    << Entrada("original", ext), Entrada("filtrada", ext), Entrada("info", "json") >>

(***************************************************************************)
(* C1.  Every Canny request with limiar2 <= limiar1, an aperture outside   *)
(* {3,5,7} or a threshold outside [0,255] is answered 400 with an          *)
(* invalid-parameter message, and no pixel processing step (grayscale      *)
(* conversion, pre-blur, Canny transform) has run for it.                  *)
(* Fails: the handlers decode the upload before borda_canny validates, so  *)
(* such a request with a rejected upload gets the upload's error (400      *)
(* "vazio", 413 "muito grande", ...) instead.                              *)
(***************************************************************************)
C1_CannyInvalidoRejeitado ==
    \A r \in Req :
        (CannyCustomizado(r) /\ ParametrosCannyInvalidos(req[r].params)) =>
            /\ PassosDePixelCanny(r) = {}
            /\ Terminado(r) =>
                  /\ resp[r].status = 400
                  /\ resp[r].corpo.mensagem.msg \in MensagensDeParametro

(***************************************************************************)
(* C2.  On the customizado endpoints of gaussiano and mediana the kernel   *)
(* size handed to the transform is the size the client sent, or the        *)
(* request is rejected: an even size is never incremented silently.        *)
(* Fails: filtro_gaussiano and filtro_mediana add 1 to an even size.       *)
(***************************************************************************)
C2_KernelParNaoIncrementado ==
    \A r \in Req :
        (req[r].modo = "customizado" /\ req[r].filtro \in {"gaussiano", "mediana"}) =>
            \A i \in ChamadasA(r, {"cv2.GaussianBlur", "cv2.medianBlur"}) :
                chamadas[r][i].args =
                    IF req[r].filtro = "gaussiano"
                    THEN <<req[r].params.kernel_width, req[r].params.kernel_height,
                           req[r].params.sigma>>
                    ELSE <<req[r].params.tamanho>>

(***************************************************************************)
(* C3.  A customizado blur request (gaussiano, media, mediana) whose       *)
(* kernel size is <= 0 or > 99 is rejected with 400 and the transform is   *)
(* never invoked with it.                                                  *)
(* Fails: no customizado handler validates the kernel size                 *)
(* (validar_kernel_impar is never called).                                 *)
(***************************************************************************)
TamanhosDeKernel(e) ==
    CASE e.filtro = "gaussiano" -> {e.params.kernel_width, e.params.kernel_height}
      [] e.filtro = "media"     -> {e.params.kernel_width, e.params.kernel_height}
      [] e.filtro = "mediana"   -> {e.params.tamanho}
      [] OTHER                  -> {}

KernelForaDoIntervalo(e) ==
    /\ e.modo = "customizado"
    /\ \E k \in TamanhosDeKernel(e) : k <= 0 \/ k > 99

C3_KernelForaDoIntervaloRejeitado ==
    \A r \in Req :
        KernelForaDoIntervalo(req[r]) =>
            /\ ChamadasA(r, {"cv2.GaussianBlur", "cv2.blur", "cv2.medianBlur"}) = {}
            /\ (Terminado(r) /\ img[r].original # SemImagem) => resp[r].status = 400

(***************************************************************************)
(* C4.  No two /download requests in flight at the same time use the same  *)
(* transient file path.                                                    *)
(* Fails: the path depends on the filter name and the level only.          *)
(***************************************************************************)
EmVooComArquivo(r) == pc[r] \in {"enviar", "limpar"}

C4_CaminhosDistintos ==
    \A r1, r2 \in Req :
        (r1 # r2 /\ EmVooComArquivo(r1) /\ EmVooComArquivo(r2)) =>
            tarefas[r1] # tarefas[r2]

(***************************************************************************)
(* C5.  A /download request whose archive was built is never corrupted by  *)
(* another request: when its response is transmitted, the file at its path *)
(* exists and holds the three entries this request wrote.                  *)
(* Fails: a second request with the same path overwrites or deletes it.    *)
(***************************************************************************)
ArquivoConstruido(r) == tarefas[r] # <<>>

C5_ArquivoIntactoNaTransmissao ==
    \A r \in Req :
        (ArquivoConstruido(r) /\ pc[r] \in {"limpar", "concluido", "respondido"}) =>
            /\ resp[r].status = 200
            /\ resp[r].tipo = "zip"
            /\ resp[r].corpo.arquivo.dono = r
            /\ resp[r].corpo.arquivo.entradas = TresEntradas(req[r].formato)

(***************************************************************************)
(* C6.  Original: once the response of a successful /download request has  *)
(* completed (its cleanup task has run), the archive this request wrote no *)
(* longer exists.  Fails when os.remove fails.                             *)
(***************************************************************************)
C6_ArquivoSempreRemovido ==
    \A r \in Req : pc[r] = "concluido" => ~ArquivoProprio(r)

(***************************************************************************)
(* C6, amended.  After the response of a successful /download request was  *)
(* transmitted, eventually the archive this request wrote no longer        *)
(* exists, or os.remove failed and the warning was printed.                *)
(***************************************************************************)
C6_ArquivoRemovidoOuAviso ==
    \A r \in Req :
        (pc[r] = "limpar") ~> (pc[r] = "concluido" /\ (~ArquivoProprio(r) \/ avisos[r] # <<>>))

C6_Testemunha ==
    \E r \in Req :
        /\ pc[r] = "concluido"
        /\ resp[r].status = 200
        /\ ~Existe(fs, CaminhoDe(r))
        /\ avisos[r] = <<>>

(***************************************************************************)
(* C7.  When criar_zip_resposta fails because an image does not encode,    *)
(* the request is answered 500 and no file, not even a partial archive, is *)
(* left at the transient path.                                             *)
(* Fails: ZipFile(caminho, 'w') has created the file before imencode runs  *)
(* and nothing removes it.                                                 *)
(***************************************************************************)
FalhouAoCriarZip(r) ==
    /\ pc[r] = "respondido"
    /\ resp[r].tipo = "erro"
    /\ resp[r].corpo.mensagem.msg = "Erro ao criar arquivo ZIP"

C7_NadaGravadoAposFalha ==
    \A r \in Req :
        FalhouAoCriarZip(r) =>
            /\ resp[r].status = 500
            /\ ~Existe(fs, CaminhoDe(r))

(***************************************************************************)
(* C8.  Every archive criar_zip_resposta builds holds exactly three        *)
(* entries, original.<ext>, filtrada.<ext> and info.json in this order,    *)
(* with <ext> the requested format (png, jpeg or jpg).                     *)
(***************************************************************************)
C8_TresEntradasNoArquivo ==
    \A r \in Req :
        pc[r] = "enviar" =>
            /\ req[r].formato \in {"png", "jpeg", "jpg"}
            /\ Existe(fs, tarefas[r][1])
            /\ fs[tarefas[r][1]].entradas =
                  << [base |-> "original", ext |-> req[r].formato],
                     [base |-> "filtrada", ext |-> req[r].formato],
                     [base |-> "info", ext |-> "json"] >>

C8_Testemunha ==
    \E r \in Req :
        /\ pc[r] = "enviar"
        /\ req[r].formato = "jpeg"
        /\ Len(fs[tarefas[r][1]].entradas) = 3

(***************************************************************************)
(* C9.  processar_imagem_upload returns no raster and raises 400 for an    *)
(* empty file, an extension outside {.jpg, .jpeg, .png} (case-insensitive),*)
(* content that does not decode and a width or height below 10; it raises  *)
(* 413 for content longer than 10 MiB, and content of exactly 10 MiB       *)
(* passes the size check.  When several checks fail the status is that of  *)
(* the first: 413 exactly when the extension is accepted and the content   *)
(* is longer than 10 MiB.                                                  *)
(***************************************************************************)
NomesAceitos ==
    { <<"a", ".", "p", "n", "g">>, <<"a", ".", "P", "N", "G">>,
      <<"b", ".", "j", "p", "g">>, <<"b", ".", "J", "p", "e", "g">> }

UploadRejeitavel(u) ==
    \/ u.filename \notin NomesAceitos
    \/ u.tamanho = 0
    \/ u.tamanho > 10485760
    \/ ~u.decodifica
    \/ u.altura < 10 \/ u.largura < 10

C9_UploadRejeitado ==
    \A r \in Req :
        pc[r] \in {"filtro", "respondido"} =>
            LET u == req[r].upload
            IN  /\ UploadRejeitavel(u) =>
                      /\ pc[r] = "respondido"
                      /\ img[r].original = SemImagem
                      /\ resp[r].status \in {400, 413}
                      /\ resp[r].status = 413 <=>
                            (u.filename \in NomesAceitos /\ u.tamanho > 10485760)
                /\ ~UploadRejeitavel(u) =>
                      /\ pc[r] = "filtro"
                      /\ img[r].original = [cor |-> u.cor, canais |-> 3, altura |-> u.altura,
                                            largura |-> u.largura]
                /\ u.tamanho = 10485760 =>
                      ((pc[r] = "respondido" /\ resp[r].tipo = "erro") =>
                          resp[r].corpo.mensagem.msg # "Arquivo muito grande")

C9_Testemunha ==
    \E r \in Req :
        /\ pc[r] = "respondido"
        /\ resp[r].status = 413
        /\ req[r].upload.tamanho = 10485761

(***************************************************************************)
(* C10.  On every quick-level endpoint and for each level 1, 2, 3, the     *)
(* parameters given to the transform and the "parametros" value reported   *)
(* (in the JSON body, or in info.json) are the documented preset of the    *)
(* level.                                                                  *)
(***************************************************************************)
PresetDocumentado(filtro, nivel) ==
    CASE filtro = "gaussiano" ->
            (1 :> [kernel_width |-> 5, kernel_height |-> 5, sigma |-> 0]
          @@ 2 :> [kernel_width |-> 15, kernel_height |-> 15, sigma |-> 0]
          @@ 3 :> [kernel_width |-> 35, kernel_height |-> 35, sigma |-> 0])[nivel]
      [] filtro = "bilateral" ->
            (1 :> [d |-> 9, sigma_cor |-> 25, sigma_espaco |-> 25]
          @@ 2 :> [d |-> 15, sigma_cor |-> 50, sigma_espaco |-> 50]
          @@ 3 :> [d |-> 25, sigma_cor |-> 75, sigma_espaco |-> 75])[nivel]
      [] filtro = "media" ->
            (1 :> [kernel_width |-> 3, kernel_height |-> 3]
          @@ 2 :> [kernel_width |-> 7, kernel_height |-> 7]
          @@ 3 :> [kernel_width |-> 15, kernel_height |-> 15])[nivel]
      [] filtro = "mediana" ->
            (1 :> [tamanho |-> 3] @@ 2 :> [tamanho |-> 7] @@ 3 :> [tamanho |-> 15])[nivel]
      [] filtro = "canny" ->
            (1 :> [limiar1 |-> 50, limiar2 |-> 150, tamanho_abertura |-> 3,
                   aplicar_blur |-> TRUE]
          @@ 2 :> [limiar1 |-> 100, limiar2 |-> 200, tamanho_abertura |-> 3,
                   aplicar_blur |-> TRUE]
          @@ 3 :> [limiar1 |-> 150, limiar2 |-> 250, tamanho_abertura |-> 3,
                   aplicar_blur |-> TRUE])[nivel]

\* the calls the transform of `filtro' must receive for the parameters p
ChamadasEsperadas(filtro, p) ==
    CASE filtro = "gaussiano" ->
            <<Chamada("cv2.GaussianBlur", "", <<p.kernel_width, p.kernel_height, p.sigma>>)>>
      [] filtro = "bilateral" ->
            <<Chamada("cv2.bilateralFilter", "", <<p.d, p.sigma_cor, p.sigma_espaco>>)>>
      [] filtro = "media" ->
            <<Chamada("cv2.blur", "", <<p.kernel_width, p.kernel_height>>)>>
      [] filtro = "mediana" ->
            <<Chamada("cv2.medianBlur", "", <<p.tamanho>>)>>
      [] filtro = "canny" ->
            (IF p.aplicar_blur THEN <<Chamada("cv2.GaussianBlur", "", <<5, 5, 0>>)>>
                               ELSE <<>>)
            \o <<Chamada("cv2.Canny", "", <<p.limiar1, p.limiar2, p.tamanho_abertura>>)>>

\* the calls of r to the transforms, in order
TransformacoesDe(r) ==
    SelectSeq(chamadas[r],
              LAMBDA c : c.op \in {"cv2.GaussianBlur", "cv2.bilateralFilter", "cv2.blur",
                                   "cv2.medianBlur", "cv2.Canny"})

NivelComPreset(r) ==
    /\ req[r].modo = "nivel"
    /\ req[r].filtro \in {"gaussiano", "bilateral", "media", "mediana", "canny"}

C10_PresetAplicadoEInformado ==
    \A r \in Req :
        (NivelComPreset(r) /\ pc[r] \notin {"ocioso", "upload", "filtro"}
                           /\ img[r].filtrada # SemImagem) =>
            LET doc == PresetDocumentado(req[r].filtro, req[r].nivel)
            IN  /\ TransformacoesDe(r) = ChamadasEsperadas(req[r].filtro, doc)
                /\ resp[r].tipo = "json" => resp[r].corpo.parametros = doc
                /\ (pc[r] = "enviar" /\ Existe(fs, tarefas[r][1])) =>
                      fs[tarefas[r][1]].info.parametros = doc

C10_Testemunha ==
    \E r \in Req :
        /\ NivelComPreset(r)
        /\ req[r].filtro = "gaussiano"
        /\ req[r].nivel = 3
        /\ resp[r].status = 200
        /\ resp[r].tipo = "json"

(***************************************************************************)
(* C11.  In every successful inline response, "parametros" is the          *)
(* parameter set the transform was actually called with, for the level and *)
(* for the customizado endpoints alike.                                    *)
(* Fails: a customizado gaussiano or mediana request with an even kernel   *)
(* size reports the size the client sent while the transform ran with the  *)
(* next odd size.                                                          *)
(***************************************************************************)
FiltrosComParametros == {"gaussiano", "bilateral", "media", "mediana", "canny"}

RespostaInlineComParametros(r) ==
    /\ pc[r] = "respondido"
    /\ resp[r].tipo = "json"
    /\ req[r].filtro \in FiltrosComParametros

C11_ParametrosInformadosSaoOsAplicados ==
    \A r \in Req :
        RespostaInlineComParametros(r) =>
            TransformacoesDe(r) = ChamadasEsperadas(req[r].filtro, resp[r].corpo.parametros)

(***************************************************************************)
(* C12.  Every failure that leaves a filter function (borda_sobel,         *)
(* borda_roberts, borda_canny, filtro_gaussiano, filtro_bilateral,         *)
(* filtro_media, filtro_mediana) is an HTTPException with status 400 or    *)
(* 500: each step in which the handler's filter call fails, fails with     *)
(* such an exception.                                                      *)
(* Fails: the four blur filters call cv2 without a try block, so cv2.error *)
(* leaves them as it is.                                                   *)
(***************************************************************************)
C12_SoErrosDaTaxonomia ==
    [][\A r \in Req :
          (pc[r] = "filtro" /\ pc'[r] = "respondido") =>
              LET exc == aplicar_filtro(req[r], img[r].original).exc
              IN  exc.tipo = "HTTPException" /\ exc.status \in {400, 500}]_vars

(***************************************************************************)
(* C13.  The body answered for an unexpected exception is one fixed        *)
(* generic text: it does not depend on the exception, so two requests      *)
(* failing with different unexpected exceptions receive the same body.     *)
(* Fails: generic_exception_handler appends str(exc) to the message.       *)
(***************************************************************************)
CorpoGenerico ==
    [mensagem |-> [msg |-> "Erro interno do servidor", detalhe |-> "", vals |-> <<>>]]

RespondidoPeloHandlerGenerico(r) ==
    /\ resp[r].tipo = "erro"
    /\ resp[r].corpo.mensagem.msg = "Erro interno do servidor"

C13_MensagemGenericaSemDetalhe ==
    \A r \in Req :
        RespondidoPeloHandlerGenerico(r) => resp[r].corpo = CorpoGenerico

(***************************************************************************)
(* C14.  Every failing request, whatever the stage that failed (schema     *)
(* validation, upload, parameter validation, transform, encoding, archive  *)
(* build, unexpected exception), is answered with a JSON body whose only   *)
(* key is "mensagem" and with a status in {400, 413, 422, 500}.            *)
(***************************************************************************)
Falhou(r) == Terminado(r) /\ resp[r].status # 200

C14_ErroSempreMensagem ==
    \A r \in Req :
        Falhou(r) =>
            /\ resp[r].tipo = "erro"
            /\ DOMAIN resp[r].corpo = {"mensagem"}
            /\ resp[r].status \in {400, 413, 422, 500}

C14_Testemunha ==
    \E r \in Req :
        /\ Falhou(r)
        /\ resp[r].status = 413
        /\ DOMAIN resp[r].corpo = {"mensagem"}

(***************************************************************************)
(* C15.  Every encoding of a raster to an output image, for the inline     *)
(* response and for the archive, is given a 3-channel raster (a            *)
(* single-channel raster is converted first), and every JPEG encoding uses *)
(* quality 95.                                                             *)
(* Fails: criar_zip_resposta encodes the rasters as they are and passes no *)
(* quality to cv2.imencode.                                                *)
(***************************************************************************)
C15_CodificacaoNormalizada ==
    \A r \in Req :
        \A i \in ChamadasA(r, {"cv2.imencode"}) :
            /\ chamadas[r][i].args[1] = 3
            /\ chamadas[r][i].alvo = ".jpg" => chamadas[r][i].args = <<3, 95>>

(***************************************************************************)
(* C16.  imagem_para_base64 returns a string that starts with              *)
(* data:image/jpeg;base64, exactly when the requested format is jpg or     *)
(* jpeg in any case, and with data:image/png;base64, otherwise; the MIME    *)
(* type of the prefix is that of the encoder that produced the bytes.      *)
(***************************************************************************)
JpegEmQualquerCaixa == {"jpg", "JPG", "jPg", "jpeg", "JPEG", "JpEg"}

\* the encoder of the last cv2.imencode call of r
UltimoCodificador(r) ==
    LET cs == SelectSeq(chamadas[r], LAMBDA c : c.op = "cv2.imencode")
    IN  cs[Len(cs)].alvo

URICoerente(r, uri, codificador) ==
    /\ uri.mime = (IF req[r].formato \in JpegEmQualquerCaixa
                   THEN "image/jpeg" ELSE "image/png")
    /\ codificador = (IF uri.mime = "image/jpeg" THEN ".jpg" ELSE ".png")
    /\ uri.codec = codificador

C16_PrefixoCorrespondeAoFormato ==
    \A r \in Req :
        (pc[r] = "respondido" /\ resp[r].tipo = "json") =>
            /\ URICoerente(r, resp[r].corpo.imagem_original, UltimoCodificador(r))
            /\ URICoerente(r, resp[r].corpo.imagem_filtrada, UltimoCodificador(r))

C16_Testemunha ==
    \E r \in Req :
        /\ pc[r] = "respondido"
        /\ resp[r].tipo = "json"
        /\ req[r].formato = "JpEg"
        /\ resp[r].corpo.imagem_filtrada.mime = "image/jpeg"

(***************************************************************************)
(* C17.  For a raster whose pixels all have the same value, borda_sobel    *)
(* and borda_roberts raise no error and return an all-zero raster with the *)
(* shape of the grayscale input.                                           *)
(* Fails for borda_sobel: the sum 0.25v + 0.5v + 0.25v - 0.25v - 0.5v -    *)
(* 0.25v of filters.sobel_h is rounded after each term and leaves a        *)
(* residue of one rounding error for most v = k / 255, so max_val is not   *)
(* 0 and the raster is normalised to 255 everywhere.                       *)
(***************************************************************************)
BordaDeUniforme(r) ==
    /\ req[r].filtro \in {"sobel", "roberts"}
    /\ img[r].original.cor # Variado
    /\ pc[r] \notin {"ocioso", "upload", "filtro"}

C17_UniformeDaZeros ==
    \A r \in Req :
        BordaDeUniforme(r) =>
            /\ resp[r].tipo # "erro"
            /\ img[r].filtrada = [canais |-> 1, altura |-> img[r].original.altura,
                                  largura |-> img[r].original.largura, cor |-> 0]

(***************************************************************************)
(* C18.  Every one of the seven filters has a preset catalog with exactly  *)
(* three entries, keyed by the levels 1, 2 and 3, and a level request      *)
(* reports the entry of its level.                                         *)
(* Fails: sobel and roberts have no catalog; their level endpoints accept  *)
(* the levels 1, 2, 3 and ignore them.                                     *)
(***************************************************************************)
C18_TresPresetsPorFiltro ==
    \A r \in Req :
        (req[r].modo = "nivel" /\ resp[r].tipo = "json") =>
            /\ DOMAIN Catalogo(req[r].filtro) = {1, 2, 3}
            /\ resp[r].corpo.parametros = Catalogo(req[r].filtro)[req[r].nivel]

(***************************************************************************)
(* C19.  processar_imagem_upload runs its checks in the order extension,   *)
(* zero length, length over 10 MiB, decode, minimum dimensions and reports *)
(* the first that fails; no later check is performed: the content is not   *)
(* read when the name is rejected and no decode is attempted for an empty  *)
(* or oversized content.  (An upload without a file name is rejected       *)
(* before the extension is looked at.)                                     *)
(***************************************************************************)
PrimeiroErro(u) ==
    IF u.filename = <<>> THEN "Nenhum arquivo foi enviado"
    ELSE IF u.filename \notin NomesAceitos THEN "Formato de arquivo nao suportado"
    ELSE IF u.tamanho = 0 THEN "O arquivo enviado esta vazio"
    ELSE IF u.tamanho > 10485760 THEN "Arquivo muito grande"
    ELSE IF ~u.decodifica THEN "Nao foi possivel decodificar a imagem"
    ELSE "Imagem muito pequena"

UploadRecusado(r) ==
    /\ pc[r] = "upload"
    /\ pc'[r] = "respondido"
    /\ resp'[r].tipo = "erro"
    /\ resp'[r].status \in {400, 413}

C19_PrimeiraFalhaRelatada ==
    [][\A r \in Req :
          UploadRecusado(r) =>
              LET u    == req[r].upload
                  lido == \E i \in DOMAIN chamadas'[r] : chamadas'[r][i].op = "arquivo.read"
                  dec  == \E i \in DOMAIN chamadas'[r] : chamadas'[r][i].op = "cv2.imdecode"
              IN  /\ resp'[r].corpo.mensagem.msg = PrimeiroErro(u)
                  /\ lido => u.filename \in NomesAceitos
                  /\ dec => /\ u.filename \in NomesAceitos
                            /\ u.tamanho > 0
                            /\ u.tamanho <= 10485760]_vars

C19_Testemunha ==
    \E r \in Req :
        /\ pc[r] = "respondido"
        /\ req[r].upload.tamanho = 10485761
        /\ ~req[r].upload.decodifica
        /\ req[r].upload.altura < 10
        /\ resp[r].corpo.mensagem.msg = "Arquivo muito grande"
        /\ ChamadasA(r, {"arquivo.read"}) # {}
        /\ ChamadasA(r, {"cv2.imdecode"}) = {}

(***************************************************************************)
(* C20.  Parameter validation happens before the upload is decoded: a      *)
(* Canny request with invalid parameters is answered with the parameter    *)
(* error, whatever its upload, and its upload is neither read nor decoded. *)
(* Fails: every handler awaits processar_imagem_upload first; borda_canny  *)
(* validates afterwards.                                                   *)
(***************************************************************************)
C20_ParametrosAntesDoUpload ==
    \A r \in Req :
        (CannyCustomizado(r) /\ ParametrosCannyInvalidos(req[r].params)) =>
            /\ ChamadasA(r, {"arquivo.read", "cv2.imdecode"}) = {}
            /\ Terminado(r) => resp[r].corpo.mensagem.msg \in MensagensDeParametro

(***************************************************************************)
(* C21.  In every /download request the cleanup is scheduled only after    *)
(* the request's archive was built with its three entries, and the archive *)
(* of a request is deleted only after the response of that same request    *)
(* has been handed to the transport, never before or during its            *)
(* transmission.                                                           *)
(* Fails with two requests in flight: the cleanup task of a request        *)
(* removes whatever is at its path, and the path is shared (C4), so it     *)
(* removes the archive another request has built and not yet transmitted.  *)
(***************************************************************************)
AgendadaAposConstrucao(r) ==
    tarefas'[r] # tarefas[r] =>
        LET c == tarefas'[r][1]
        IN  /\ Existe(fs', c)
            /\ fs'[c].dono = r
            /\ Len(fs'[c].entradas) = 3

\* the archive request r built and scheduled for deletion is removed in this step
ArquivoDeRemovido(r) ==
    /\ tarefas[r] # <<>>
    /\ Existe(fs, tarefas[r][1])
    /\ fs[tarefas[r][1]].dono = r
    /\ ~Existe(fs', tarefas[r][1])

C21_RemocaoSoDepoisDoEnvio ==
    [][\A r \in Req :
          /\ AgendadaAposConstrucao(r)
          /\ ArquivoDeRemovido(r) => pc[r] = "limpar"]_vars

(***************************************************************************)
(* C23.  In every endpoint the clock is read once before the upload is     *)
(* read and decoded and once after the filter has been applied, before any *)
(* image is encoded and before any archive is built or sent: the measured  *)
(* time covers decode and filter and excludes encoding and transport.      *)
(***************************************************************************)
OpsDecodificacao == {"arquivo.read", "cv2.imdecode"}

OpsFiltro ==
    {"cv2.GaussianBlur", "cv2.bilateralFilter", "cv2.blur", "cv2.medianBlur",
     "cv2.Canny", "filters.sobel_h", "filters.sobel_v", "filters.roberts"}

OpsSaida ==
    {"cv2.imencode", "base64.b64encode", "zipfile.ZipFile", "zipf.writestr",
     "background_tasks.add_task", "FileResponse", "os.remove"}

Relogio(r, qual) ==
    { i \in 1..Len(chamadas[r]) :
        chamadas[r][i].op = "time.time" /\ chamadas[r][i].alvo = qual }

Medidos(r) ==
    { i \in 1..Len(chamadas[r]) :
        \/ chamadas[r][i].op \in OpsDecodificacao \cup OpsFiltro
        \/ chamadas[r][i].op = "cv2.cvtColor" /\ chamadas[r][i].alvo = "BGR2GRAY" }

NaoMedidos(r) ==
    { i \in 1..Len(chamadas[r]) :
        \/ chamadas[r][i].op \in OpsSaida
        \/ chamadas[r][i].op = "cv2.cvtColor" /\ chamadas[r][i].alvo = "GRAY2BGR" }

C23_TempoCobreDecodificacaoEFiltro ==
    \A r \in Req :
        LET ini == Relogio(r, "inicio")
            fim == Relogio(r, "fim")
        IN  /\ Cardinality(ini) <= 1
            /\ Cardinality(fim) <= 1
            /\ \A i \in Medidos(r) : \E j \in ini : j < i
            /\ \A i \in Medidos(r) : \A j \in fim : i < j
            /\ \A i \in NaoMedidos(r) : \E j \in fim : j < i
            /\ resp[r].status = 200 => (ini # {} /\ fim # {})

\* an archive was delivered: decode, filter, clock, encode, transport, cleanup
C23_Testemunha ==
    \E r \in Req :
        /\ pc[r] = "concluido"
        /\ resp[r].status = 200
        /\ req[r].filtro = "canny"
        /\ Cardinality(Medidos(r)) >= 5
        /\ Cardinality(NaoMedidos(r)) >= 8

(***************************************************************************)
(* C22.  limpar_arquivo_temporario never raises: it does nothing when the  *)
(* file does not exist; when os.remove fails the error is swallowed and a  *)
(* warning is printed, the file stays and the response already delivered   *)
(* is unchanged; a second call on the same path leaves the directory as    *)
(* the first call left it.                                                 *)
(***************************************************************************)
LimpezaExecutada(r) == pc[r] = "limpar" /\ pc'[r] = "concluido"

C22_LimpezaNuncaFalha ==
    [][\A r \in Req :
          LimpezaExecutada(r) =>
              LET c    == tarefas[r][1]
                  uma  == limpar_arquivo_temporario(fs, c, req[r].falha)
                  duas == limpar_arquivo_temporario(uma.fs, c, req[r].falha)
              IN  /\ uma.exc = Nenhuma
                  /\ duas.exc = Nenhuma
                  /\ ~Existe(fs, c) =>
                        (uma.fs = fs /\ uma.chamadas = <<>> /\ uma.avisos = <<>>)
                  /\ (Existe(fs, c) /\ req[r].falha = "remove") =>
                        (uma.fs = fs /\ uma.avisos # <<>>)
                  /\ (Existe(fs, c) /\ req[r].falha # "remove") => ~Existe(uma.fs, c)
                  /\ duas.fs = uma.fs
                  /\ fs' = uma.fs
                  /\ resp'[r] = resp[r]]_vars

\* a removal failed after the archive was delivered: only the warning shows it
C22_Testemunha ==
    \E r \in Req :
        /\ pc[r] = "concluido"
        /\ resp[r].status = 200
        /\ resp[r].tipo = "zip"
        /\ avisos[r] # <<>>
        /\ Existe(fs, tarefas[r][1])

\* the cleanup of request r found no file at its path
C22_TestemunhaAusente ==
    \E r \in Req :
        /\ pc[r] = "concluido"
        /\ avisos[r] = <<>>
        /\ ChamadasA(r, {"os.remove"}) = {}

(***************************************************************************)
(* C24.  validar_kernel_impar returns normally exactly when the size k is  *)
(* odd and 1 <= k <= 99; for every other integer it raises a 400 error     *)
(* whose message carries the parameter name and the value received, as     *)
(* received: an even k is rejected, not rounded.                           *)
(***************************************************************************)
Retornou(r) == pc[r] = "retornou" /\ resp[r] = SemResposta

Levantou400(r) ==
    /\ pc[r] = "respondido"
    /\ resp[r].tipo = "erro"
    /\ resp[r].status = 400

KernelsAceitos == { k \in 1..99 : k % 2 = 1 }

C24_KernelImparValidado ==
    \A r \in Req :
        (req[r].filtro = "validar_kernel_impar" /\ pc[r] # "chamada") =>
            LET k == req[r].params.kernel_size
            IN  IF k \in KernelsAceitos
                THEN Retornou(r)
                ELSE /\ Levantou400(r)
                     /\ resp[r].corpo.mensagem.vals = <<req[r].params.nome_parametro, k>>

C24_Testemunha ==
    \E r \in Req :
        /\ req[r].filtro = "validar_kernel_impar"
        /\ req[r].params.kernel_size = 98
        /\ Levantou400(r)
        /\ resp[r].corpo.mensagem.msg = "deve ser um numero impar"

(***************************************************************************)
(* C25.  validar_intervalo(v, min, max, name) returns normally exactly     *)
(* when min <= v <= max, both bounds included, and raises a 400 error      *)
(* otherwise; borda_canny therefore takes the thresholds 0 and 255 as in   *)
(* range and rejects -1 and 256 with the range error.                      *)
(***************************************************************************)
ErroDeIntervalo(r) == Levantou400(r) /\ resp[r].corpo.mensagem.msg = "deve estar entre"

C25_IntervaloInclusivo ==
    \A r \in Req :
        pc[r] # "chamada" =>
            /\ req[r].filtro = "validar_intervalo" =>
                  IF req[r].params.valor \in req[r].params.minimo..req[r].params.maximo
                  THEN Retornou(r)
                  ELSE ErroDeIntervalo(r)
            /\ req[r].filtro = "borda_canny" =>
                  (ErroDeIntervalo(r) <=>
                      \/ req[r].params.limiar1 \notin 0..255
                      \/ req[r].params.limiar2 \notin 0..255)

\* borda_canny ran with the thresholds 0 and 255
C25_Testemunha ==
    \E r \in Req :
        /\ req[r].filtro = "borda_canny"
        /\ req[r].params.limiar1 = 0
        /\ req[r].params.limiar2 = 255
        /\ Retornou(r)
        /\ \E i \in ChamadasA(r, {"cv2.Canny"}) : chamadas[r][i].args[1] = 0

(***************************************************************************)
(* C26.  An error raised with status 400 or 413 inside the try block of    *)
(* processar_imagem_upload, borda_canny or imagem_para_base64 reaches the  *)
(* client with that status and that message: the catch-all clause never    *)
(* turns it into a 500.                                                    *)
(***************************************************************************)
\* the upload passes the checks made before the try block and fails inside it
RecusadoDentroDoTry(u) ==
    /\ u.filename \in NomesAceitos
    /\ \/ u.tamanho = 0
       \/ u.tamanho > 10485760
       \/ ~u.decodifica
       \/ u.altura < 10 \/ u.largura < 10

CannyRecusadoDentroDoTry(r) ==
    /\ CannyCustomizado(r)
    /\ ParametrosCannyInvalidos(req[r].params)
    /\ ~UploadRejeitavel(req[r].upload)
    /\ req[r].falha # "read"

C26_ErroDoClientePreservado ==
    \A r \in Req :
        Terminado(r) =>
            /\ RecusadoDentroDoTry(req[r].upload) =>
                  /\ resp[r].corpo.mensagem.msg = PrimeiroErro(req[r].upload)
                  /\ resp[r].status =
                        IF req[r].upload.tamanho > 10485760 THEN 413 ELSE 400
            /\ CannyRecusadoDentroDoTry(r) =>
                  /\ resp[r].status = 400
                  /\ resp[r].corpo.mensagem.msg \in MensagensDeParametro

C26_Testemunha ==
    \E r \in Req :
        /\ Terminado(r)
        /\ CannyRecusadoDentroDoTry(r)
        /\ req[r].params.tamanho_abertura = 4
        /\ resp[r].corpo.mensagem.msg = "tamanho_abertura deve ser 3, 5 ou 7"
        /\ resp[r].corpo.mensagem.vals = <<4>>

(***************************************************************************)
(* C27.  Every preset passes the validation of its own filter: each        *)
(* NIVEIS_CANNY entry has both thresholds in [0,255], limiar2 > limiar1    *)
(* and an aperture in {3,5,7}; each gaussiano and mediana preset size is   *)
(* odd and in 1..99.  So no level request is answered with a parameter     *)
(* error, and the size handed to the blur is the preset's size, unchanged  *)
(* by the odd-rounding.                                                    *)
(***************************************************************************)
TamanhosDoPreset(filtro, p) ==
    CASE filtro = "gaussiano" -> {p.kernel_width, p.kernel_height}
      [] filtro = "mediana"   -> {p.tamanho}
      [] OTHER                -> {}

NivelValidavel(r) ==
    /\ req[r].modo = "nivel"
    /\ req[r].nivel \in Niveis
    /\ req[r].filtro \in {"canny", "gaussiano", "mediana"}

C27_PresetsPassamNaValidacao ==
    \A r \in Req :
        NivelValidavel(r) =>
            LET f == req[r].filtro
                p == Catalogo(f)[req[r].nivel]
            IN  /\ f = "canny" =>
                      /\ validar_canny(p.limiar1, p.limiar2, p.tamanho_abertura) = Nenhuma
                      /\ p.limiar1 \in 0..255
                      /\ p.limiar2 \in 0..255
                      /\ p.limiar2 > p.limiar1
                      /\ p.tamanho_abertura \in {3, 5, 7}
                /\ \A k \in TamanhosDoPreset(f, p) :
                      /\ validar_kernel_impar(k, "kernel") = Nenhuma
                      /\ k \in KernelsAceitos
                /\ (Terminado(r) /\ resp[r].tipo = "erro") =>
                      resp[r].corpo.mensagem.msg \notin MensagensDeParametro
                /\ f # "canny" =>
                      \A i \in ChamadasA(r, {"cv2.GaussianBlur", "cv2.medianBlur"}) :
                          chamadas[r][i].args[1] \in TamanhosDoPreset(f, p)

\* the strongest Canny preset went through borda_canny's checks to cv2.Canny
C27_Testemunha ==
    \E r \in Req :
        /\ NivelValidavel(r)
        /\ req[r].filtro = "canny"
        /\ req[r].nivel = 3
        /\ Terminado(r)
        /\ resp[r].status = 200
        /\ \E i \in ChamadasA(r, {"cv2.Canny"}) : chamadas[r][i].args = <<150, 250, 3>>

(***************************************************************************)
(* C28.  An aplicar_*_nivel function (gaussiano, bilateral, media,         *)
(* mediana, canny) called with a level outside {1,2,3} does not fail: it   *)
(* applies the level-2 preset.  Through HTTP such a level never reaches    *)
(* it: the request is answered 422 and nothing is called.                  *)
(***************************************************************************)
NivelEfetivo(nivel) == IF nivel \in {1, 2, 3} THEN nivel ELSE 2

FuncaoDeNivelRetorna(r) ==
    (pc[r] = "chamada" /\ pc'[r] # "chamada") =>
        /\ pc'[r] = "retornou"
        /\ resp'[r] = SemResposta
        /\ img'[r].filtrada # SemImagem
        /\ TransformacoesDe(r)' =
              ChamadasEsperadas(req[r].filtro,
                                PresetDocumentado(req[r].filtro, NivelEfetivo(req[r].nivel)))

NivelInvalidoBarrado(r) ==
    (pc[r] = "ocioso" /\ pc'[r] # "ocioso" /\ req'[r].modo = "nivel"
                      /\ req'[r].nivel \notin {1, 2, 3}) =>
        /\ pc'[r] = "respondido"
        /\ resp'[r].status = 422
        /\ "path -> nivel" \in { resp'[r].corpo.mensagem.vals[i] :
                                   i \in DOMAIN resp'[r].corpo.mensagem.vals }
        /\ chamadas'[r] = <<>>

C28_NivelForaDoCatalogo ==
    [][\A r \in Req : FuncaoDeNivelRetorna(r) /\ NivelInvalidoBarrado(r)]_vars

\* aplicar_mediana_nivel(img, 4) ran cv2.medianBlur with the level-2 size
C28_Testemunha ==
    \E r \in Req :
        /\ pc[r] = "retornou"
        /\ req[r].filtro = "mediana"
        /\ req[r].nivel = 4
        /\ \E i \in ChamadasA(r, {"cv2.medianBlur"}) : chamadas[r][i].args = <<7>>

\* POST /filtros/mediana/4 was answered 422
C28_TestemunhaHTTP ==
    \E r \in Req :
        /\ pc[r] = "respondido"
        /\ req[r].filtro = "mediana"
        /\ req[r].nivel = 4
        /\ resp[r].status = 422

(***************************************************************************)
(* C29.  On the sobel and roberts level endpoints the filtered image does  *)
(* not depend on the level: two requests with the same filter and the same *)
(* upload get the same filtered raster from the same calls, whatever their *)
(* levels.  The level only appears as the `nivel' of the response and in   *)
(* the name of the archive, and no `parametros' is reported.               *)
(***************************************************************************)
BordaPorNivel(r) == req[r].modo = "nivel" /\ req[r].filtro \in {"sobel", "roberts"}

Filtrado(r) == pc[r] \in {"montar", "enviar", "limpar", "respondido", "concluido"}

ChamadasDeBorda(r) ==
    SelectSeq(chamadas[r],
              LAMBDA c : c.op \in {"cv2.cvtColor", "filters.sobel_h", "filters.sobel_v",
                                   "filters.roberts"})

C29_BordaIndependenteDoNivel ==
    /\ \A r1, r2 \in Req :
          (/\ BordaPorNivel(r1) /\ BordaPorNivel(r2)
           /\ Filtrado(r1) /\ Filtrado(r2)
           /\ req[r1].filtro = req[r2].filtro
           /\ req[r1].upload = req[r2].upload) =>
              /\ img[r1].filtrada = img[r2].filtrada
              /\ (resp[r1].tipo = "json" /\ resp[r2].tipo = "json") =>
                    /\ resp[r1].corpo.imagem_filtrada = resp[r2].corpo.imagem_filtrada
                    /\ ChamadasDeBorda(r1) = ChamadasDeBorda(r2)
    /\ \A r \in Req :
          BordaPorNivel(r) =>
              /\ resp[r].tipo = "json" =>
                    /\ resp[r].corpo.nivel = req[r].nivel
                    /\ resp[r].corpo.parametros = SemParametros
              /\ tarefas[r] # <<>> =>
                    tarefas[r][1] = <<"temp", "filtro", req[r].filtro, "nivel", req[r].nivel>>
              /\ resp[r].tipo = "zip" =>
                    resp[r].corpo.arquivo.info.parametros = SemParametros

\* the same uniform upload went through sobel at level 1 and at level 3
C29_Testemunha ==
    \E r1, r2 \in Req :
        /\ req[r1].filtro = "sobel" /\ req[r2].filtro = "sobel"
        /\ req[r1].nivel = 1 /\ req[r2].nivel = 3
        /\ req[r1].upload = req[r2].upload
        /\ req[r1].upload.cor = 11
        /\ resp[r1].tipo = "json" /\ resp[r2].tipo = "json"
        /\ img[r1].filtrada = img[r2].filtrada
        /\ img[r1].filtrada # SemImagem

=============================================================================
